---- MODULE Spec2Model ----
(***************************************************************************)
(* Payment reconciliation core of RealEstateManager (Backend/payments_app, *)
(* Backend/services/flutterwave_service.py).  The persistent store is the  *)
(* set of tables; every request handler, webhook call and background job   *)
(* is an action on it.  Rows are identified by their position in the       *)
(* table (the model's stand-in for the uuid primary key).                  *)
(***************************************************************************)
EXTENDS Integers, Sequences, FiniteSets, TLC

\* ---------------------------------------------------------------- bounds
MaxPayments  == 2      \* LandPayment rows ever created
MaxPurchases == 1      \* LandPurchase rows ever created
MaxAttempts  == 2      \* PaymentAttempt rows ever created
MaxInFlight  == 1      \* verify requests waiting for the gateway at once
MaxQueued    == 4      \* jobs waiting in the queue
NumBuyers    == 1
NumLands     == 1
NumWorkers   == 2      \* processes serving login requests at once
NumUsers     == 2      \* users with two-factor login
MaxCodes     == 3      \* TwoFactorAuth rows ever created
MaxOtpTime   == 15     \* minutes the clock of the OTP specification runs
OtpTickMinutes == 5    \* minutes between two instants that clock is read at
MaxTokens    == 2      \* JWT pairs ever issued
MaxLedger    == 3      \* PaymentAttempt rows in the specification of create_new_attempt
MaxDrafts    == 2      \* LandPurchase rows in the specification of get_or_create
MaxSavedRows == 2      \* rows per table in the specification of the references
NumSuffixes  == 2      \* values the random part of a reference is drawn from
MaxRefTime   == 1      \* seconds the clock of that specification runs
MaxPlanPayments  == 3  \* LandPayment rows of a purchase on a plan
MaxInstallmentNo == 2  \* installment numbers pay_installment is asked for
MaxTime          == 48 \* hours the clock of the sweep's specification runs
TickHours        == 24 \* hours between two instants the clock is read at
MaxLandBuyers    == 2  \* buyers after the same land

\* ------------------------------------------------------ program constants
LandPrice         == 50000000    \* Land.total_price of the listed parcel
DownPaymentPct    == 30          \* LandInstallmentPlan.down_payment_percentage
PlanMonths        == 6           \* LandInstallmentPlan.total_months of the land's plan
AmountCeiling     == 100000000   \* _validate_input_amount limit
RequestAmount     == 50000000    \* the amount a request body carries
SweepAgeHours     == 24          \* cleanup_old_pending_payments: timedelta(hours=24)
MaxRetries        == 3           \* _make_secure_request: max_retries
RetryDelay        == 1           \* _make_secure_request: retry_delay, seconds
OtpLifetime       == 10          \* generate_otp: timedelta(minutes=10)

NULL == -1

Buyers == 1..NumBuyers
Lands  == 1..NumLands

\* the payment types initiate_land_payment branches on (the serializer's other
\* choices take its last branch, as down_payment without a plan does)
PaymentTypes == {"full_payment", "down_payment", "reservation_fee"}

VARIABLES
    lands,        \* Land.status per parcel
    purchases,    \* LandPurchase table
    payments,     \* LandPayment table
    attempts,     \* PaymentAttempt table
    schedules,    \* PaymentSchedule table
    queue,        \* celery queue, oldest job first
    inflight,     \* verify requests between their read and the gateway's answer
    sentRefs,     \* tx_refs the gateway accepted at initiation
    now,          \* timezone.now(), the instant the calls below are made at
    last,         \* the call that produced this state, and what it returned
    call,         \* the FlutterwaveService call in progress (gateway specification)
    codes,        \* TwoFactorAuth table (OTP specification)
    issuers,      \* generate_otp calls in progress, one per worker
    tokens,       \* JWT pairs issued by RefreshToken.for_user, oldest first
    reply,        \* the Response of the last auth_app request
    procs,        \* model-method calls between two of their statements, one per worker
    saved         \* LandPayment and PaymentAttempt rows with their references spelled out

\* the state of the services that the payment handlers do not touch
aux == <<call, codes, issuers, tokens, reply, procs, saved>>

vars == <<lands, purchases, payments, attempts, schedules, queue, inflight,
          sentRefs, now, last, aux>>

\* ------------------------------------------------------------ references
\* LandPayment.save: 'land_<payment_reference>_<ts>'
PaymentTxRef(id) == <<"land", id>>
\* PaymentAttempt.save: 'myhouse_attempt_<ts>_<uuid8>'
AttemptTxRef(id) == <<"myhouse_attempt", id>>
UnknownRef == <<"other", 0>>

\* ------------------------------------------------------------------ money
\* An amount as the DecimalField(max_digits=12, decimal_places=2) columns hold
\* it: whole units and hundredths (0..99), kept apart so that sums of amounts
\* stay within the integers of the checker.
\* hundredths in a unit (decimal_places=2)
Hundred == 100
Money(units, cents) == [units |-> units, cents |-> cents]
Zero == Money(0, 0)
\* no amount at all: the expression that should give one raised
NoAmount == Money(NULL, 0)

\* hundredths carried into units
Carry(units, cents) == Money(units + cents \div Hundred, cents % Hundred)

MoneyPlus(a, b) == Carry(a.units + b.units, a.cents + b.cents)

\* a - b, for a >= b
MoneyMinus(a, b) ==
    IF a.cents >= b.cents THEN Money(a.units - b.units, a.cents - b.cents)
    ELSE Money(a.units - b.units - 1, a.cents + Hundred - b.cents)

MoneyAtLeast(a, b) == a.units > b.units \/ (a.units = b.units /\ a.cents >= b.cents)

MoneyPositive(a) == a.units > 0 \/ (a.units = 0 /\ a.cents > 0)

\* num / den to the nearest integer, ties to the even one (ROUND_HALF_EVEN,
\* the rounding of the decimal context the columns are written with)
RoundHalfEven(num, den) ==
    LET q == num \div den
        r == num % den
    IN IF 2 * r > den \/ (2 * r = den /\ q % 2 = 1) THEN q + 1 ELSE q

\* a * pct / 100, as the column stores it
MoneyPercent(a, pct) ==
    Carry((a.units \div Hundred) * pct,
          (a.units % Hundred) * pct + RoundHalfEven(a.cents * pct, Hundred))

\* a / n, as the column stores it
MoneyOver(a, n) ==
    Carry(a.units \div n, RoundHalfEven((a.units % n) * Hundred + a.cents, n))

ReqAmounts == {NoAmount, Money(RequestAmount, 0)}

\* --------------------------------------------------------- plan formulas
\* the results are read back from the columns they are stored in
\* (LandPurchase.down_payment_amount, PaymentSchedule.amount)
calculate_down_payment(land_price) == MoneyPercent(land_price, DownPaymentPct)

\* the plan carries no interest (monthly_interest_rate = 0)
calculate_monthly_payment(land_price) ==
    MoneyOver(MoneyMinus(land_price, calculate_down_payment(land_price)), PlanMonths)

\* ------------------------------------------------------------- row saves
\* LandPurchase.save: derives the down payment from the plan when it is unset
LandPurchaseSave(u) ==
    IF u.installment_plan /\ u.down_payment_amount = Zero
    THEN [u EXCEPT !.down_payment_amount = calculate_down_payment(u.total_land_price),
                   !.total_installments = PlanMonths]
    ELSE u

\* PaymentAttempt.save: the failure flag and completion stamp follow the status
\* (completed_at records whether the stamp is set, not its value)
PaymentAttemptSave(a) ==
    IF a.status \in {"failed", "cancelled"}
    THEN [a EXCEPT !.is_failed = TRUE, !.completed_at = TRUE]
    ELSE IF a.status = "completed"
         THEN [a EXCEPT !.is_failed = FALSE, !.completed_at = TRUE]
         ELSE a

\* a gateway blob is stored only when one is passed ("if gateway_data:")
NoBlob == <<"none", "none">>
StoreBlob(old, gateway_data) == IF gateway_data = NoBlob THEN old ELSE gateway_data

mark_processing(a) ==
    PaymentAttemptSave([a EXCEPT !.status = "processing"])

mark_completed(a, gateway_data) ==
    PaymentAttemptSave([a EXCEPT !.status = "completed", !.completed_at = TRUE,
                                 !.gateway_response = StoreBlob(@, gateway_data)])

mark_failed(a, gateway_data) ==
    PaymentAttemptSave([a EXCEPT !.status = "failed", !.is_failed = TRUE,
                                 !.completed_at = TRUE,
                                 !.gateway_response = StoreBlob(@, gateway_data)])

NewAttempt(p, n) ==
    [payment |-> p, attempt_number |-> n, status |-> "initiated",
     flutterwave_tx_ref |-> AttemptTxRef(Len(attempts) + 1),
     is_failed |-> FALSE, gateway_response |-> NoBlob, completed_at |-> FALSE]

NewPayment(u, b, amount, ptype, inst) ==
    [purchase |-> u, buyer |-> b, amount |-> amount,
     payment_type |-> ptype, status |-> "pending",
     installment_number |-> inst, paid_date |-> NULL, created_at |-> now,
     flutterwave_tx_ref |-> PaymentTxRef(Len(payments) + 1),
     flutterwave_response |-> NoBlob]

\* ------------------------------------------------------------------ jobs
\* task.delay(id): the job joins the queue
Delay(q, task, id) == Append(q, <<task, id, 0>>)

\* views.trigger_land_post_payment_actions: the four .delay() calls
trigger_land_post_payment_actions(q, p) ==
    Delay(Delay(Delay(Delay(q, "receipt", p), "confirmation", p),
                "rollup", payments[p].purchase), "notify", payments[p].purchase)

\* --------------------------------------------------------------- the last call
\* The call that was just served, for the verify view and handle_webhook.
\* op: the handler; ret: what it returned (the HTTP status of the view, the
\* boolean of handle_webhook); p: the payment row it worked on (0: none);
\* status: what the gateway said of the charge (the result of verify_payment,
\* data.status of the webhook body); sig, event, ref: how the webhook was
\* signed, its event and the prefix of its tx_ref.
NoCall == [op |-> "none", ret |-> "none", p |-> 0, status |-> "none",
           sig |-> "none", event |-> "none", ref |-> "none"]

VerifyCall(ret, p, result) ==
    [NoCall EXCEPT !.op = "verify", !.ret = ret, !.p = p, !.status = result]

\* calls are served one after another: the next is taken once the caller of
\* the last has its answer
Idle == last = NoCall

\* a key of payment_data: in the dictionary or not, and the text it holds
\* (a sequence of characters; None and '' both hold nothing)
Field(v) == [present |-> TRUE, value |-> v]
AbsentField == [present |-> FALSE, value |-> <<>>]

\* the amount of payment_data: a number, a text float() cannot read, or no key
Number(v) == [form |-> "number", value |-> v]
NotANumber == [form |-> "text", value |-> 0]
AbsentAmount == [form |-> "absent", value |-> 0]

NoData == [tx_ref |-> AbsentField, amount |-> AbsentAmount,
           customer_email |-> AbsentField, customer_name |-> AbsentField]

\* no FlutterwaveService call in progress. op: the method; phase: idle,
\* requesting (inside _make_secure_request) or returned; pd: the payment_data of
\* initialize_payment; attempt: the loop variable; sends: requests.request
\* calls made; slept: the time.sleep delays; outcomes: how each request ended;
\* success, code: the result dictionary; raised: the call ended in an exception.
NoRequest ==
    [op |-> "none", phase |-> "idle", pd |-> NoData, attempt |-> 0, sends |-> 0,
     slept |-> <<>>, outcomes |-> <<>>, success |-> FALSE, code |-> "none",
     raised |-> FALSE]

\* a worker that is not inside generate_otp
NotIssuing == [pc |-> "idle", user |-> 0]
Workers == 1..NumWorkers

\* both tables empty
NoRows == [payments |-> <<>>, attempts |-> <<>>]

\* no row loaded
NoRow == [status |-> "none"]

\* a worker that is inside no call (task, row: the job a Celery worker runs and
\* the row it loaded)
NoProc == [pc |-> "idle", p |-> 0, n |-> 0, b |-> 0, l |-> 0, task |-> "none",
           row |-> NoRow]

\* no auth_app request answered yet
NoReply == [op |-> "none", status |-> "none", error |-> "none", user |-> 0,
            otp |-> "none", issued |-> FALSE, at |-> 0]

Init ==
    /\ lands = [l \in Lands |-> "available"]
    /\ purchases = <<>>
    /\ payments = <<>>
    /\ attempts = <<>>
    /\ schedules = {}
    /\ queue = <<>>
    /\ inflight = {}
    /\ sentRefs = {}
    /\ now = 0
    /\ last = NoCall
    /\ call = NoRequest
    /\ codes = <<>>
    /\ issuers = [w \in Workers |-> NotIssuing]
    /\ tokens = <<>>
    /\ reply = NoReply
    /\ procs = [w \in Workers |-> NoProc]
    /\ saved = NoRows

\* ------------------------------------------------ initiate_land_payment
DraftPurchases(b, l) ==
    {u \in 1..Len(purchases) :
        /\ purchases[u].land = l
        /\ purchases[u].buyer = b
        /\ purchases[u].status = "draft"}

NewPurchase(b, l, ptype) ==
    LandPurchaseSave(
        [land |-> l, buyer |-> b, status |-> "draft", payment_type |-> ptype,
         total_land_price |-> Money(LandPrice, 0), installment_plan |-> FALSE,
         down_payment_amount |-> Zero, down_payment_paid |-> FALSE,
         total_installments |-> 0])

\* views.py 59-67; NoAmount stands for the exception the expression raises:
\* reservation_fee evaluates land.total_price * 0.05 (Decimal * float) as the
\* default argument of .get(), whether or not a fee was sent; the last branch
\* indexes validated_data['amount'], absent when the client sent none.
InitiateAmount(u, ptype, reqAmount) ==
    IF ptype = "full_payment" THEN Money(LandPrice, 0)
    ELSE IF ptype = "down_payment" /\ u.installment_plan THEN u.down_payment_amount
    ELSE IF ptype = "reservation_fee" THEN NoAmount
    ELSE reqAmount

\* FlutterwaveService._validate_input_amount
ValidInputAmount(amount) ==
    MoneyPositive(amount) /\ MoneyAtLeast(Money(AmountCeiling, 0), amount)

\* What the call FlutterwaveService.initialize_payment(payment_data) gives the
\* view: "accepted" / "refused" are the result dictionaries of
\* initialize_payment (refused includes validation_error and
\* service_unavailable); "raised" is the call failing in the view itself, which
\* is what the call on the class, without an instance, does.
GatewayInitResults == {"accepted", "refused", "raised"}

InitResult(amount, gw) ==
    IF gw = "raised" THEN "raised"
    ELSE IF ~ValidInputAmount(amount) THEN "refused"
    ELSE gw

\* views.py 34-134 given what the SELECT of get_or_create found: the draft
\* row `found`, or 0 for none, in which case the row is inserted (at most cap
\* purchases are kept)
InitiateLandPaymentFrom(b, l, ptype, withPlan, reqAmount, gw, found, cap) ==
    /\ Len(payments) < MaxPayments
    /\ Len(attempts) < MaxAttempts
    /\ lands[l] \in {"available", "reserved"}
    /\ found = 0 => Len(purchases) < cap
    /\ LET created == found = 0
           u    == IF created THEN Len(purchases) + 1 ELSE found
           row0 == IF created THEN NewPurchase(b, l, ptype) ELSE purchases[u]
           row1 == IF withPlan
                   THEN LandPurchaseSave([row0 EXCEPT !.installment_plan = TRUE])
                   ELSE row0
           purchases1 == IF created THEN Append(purchases, row1)
                         ELSE [purchases EXCEPT ![u] = row1]
           amount == InitiateAmount(row1, ptype, reqAmount)
           p    == Len(payments) + 1
           a    == Len(attempts) + 1
           pay  == NewPayment(u, b, amount, ptype, NULL)
           att  == NewAttempt(p, 1)
           res  == InitResult(amount, gw)
       IN
       /\ purchases' = purchases1
       /\ IF amount = NoAmount
          THEN /\ last' = NoCall
               /\ UNCHANGED <<payments, attempts, sentRefs>>
          ELSE CASE res = "accepted" ->
                    /\ attempts' = Append(attempts, mark_processing(att))
                    /\ payments' = Append(payments, [pay EXCEPT !.status = "processing"])
                    /\ sentRefs' = sentRefs \cup {att.flutterwave_tx_ref}
                    /\ last' = NoCall
               [] res = "refused" ->
                    /\ attempts' = Append(attempts, mark_failed(att, NoBlob))
                    /\ payments' = Append(payments, [pay EXCEPT !.status = "failed"])
                    /\ sentRefs' = sentRefs
                    /\ last' = NoCall
               [] res = "raised" ->
                    /\ attempts' = Append(attempts, att)
                    /\ payments' = Append(payments, pay)
                    /\ sentRefs' = sentRefs
                    /\ last' = NoCall
    /\ UNCHANGED <<lands, schedules, queue, inflight, now>>

\* the handler served alone: get_or_create finds the draft or inserts it
InitiateLandPayment(b, l, ptype, withPlan, reqAmount, gw) ==
    /\ Cardinality(DraftPurchases(b, l)) <= 1
    /\ InitiateLandPaymentFrom(b, l, ptype, withPlan, reqAmount, gw,
            IF DraftPurchases(b, l) = {} THEN 0
            ELSE CHOOSE x \in DraftPurchases(b, l) : TRUE,
            MaxPurchases)
    /\ UNCHANGED aux

Initiate ==
    /\ Idle
    /\ \E b \in Buyers, l \in Lands, ptype \in PaymentTypes, withPlan \in BOOLEAN,
          reqAmount \in ReqAmounts, gw \in GatewayInitResults :
          InitiateLandPayment(b, l, ptype, withPlan, reqAmount, gw)

\* ------------------------------------------------------ pay_installment
ScheduleRows(u, n) ==
    {r \in schedules : r.purchase = u /\ r.installment_number = n}

\* pay_installment builds the service object first, so its gateway call
\* returns one of initialize_payment's result dictionaries.
PayInstallmentUpTo(b, u, n, gw, cap) ==
    /\ u \in 1..Len(purchases)
    /\ purchases[u].buyer = b
    /\ IF ~purchases[u].down_payment_paid
       THEN /\ last' = NoCall
            /\ UNCHANGED <<payments, sentRefs>>
       ELSE IF ScheduleRows(u, n) = {}
       THEN /\ last' = NoCall
            /\ UNCHANGED <<payments, sentRefs>>
       ELSE LET row == CHOOSE r \in ScheduleRows(u, n) : TRUE
                p   == Len(payments) + 1
                pay == NewPayment(u, b, row.amount, "installment", n)
                res == InitResult(row.amount, gw)
            IN
            IF row.is_paid
            THEN /\ last' = NoCall
                 /\ UNCHANGED <<payments, sentRefs>>
            ELSE /\ Len(payments) < cap
                 /\ IF res = "accepted"
                    THEN /\ payments' = Append(payments, [pay EXCEPT !.status = "initiated"])
                         /\ sentRefs' = sentRefs \cup {pay.flutterwave_tx_ref}
                         /\ last' = NoCall
                    ELSE /\ payments' = Append(payments, [pay EXCEPT !.status = "failed"])
                         /\ sentRefs' = sentRefs
                         /\ last' = NoCall
    /\ UNCHANGED <<lands, purchases, attempts, schedules, queue, inflight, now, aux>>

PayInstallment(b, u, n, gw) == PayInstallmentUpTo(b, u, n, gw, MaxPayments)

Installment ==
    /\ Idle
    /\ \E b \in Buyers, u \in 1..MaxPurchases, n \in 1..MaxInstallmentNo,
          gw \in {"accepted", "refused"} :
          PayInstallment(b, u, n, gw)

\* ---------------------------------------------------- create_new_attempt
attempt_count(p) == Cardinality({a \in 1..Len(attempts) : attempts[a].payment = p})

\* LandPayment.create_new_attempt; unique_together (payment, attempt_number)
\* makes the insert fail when the number is taken.
create_new_attempt(p) ==
    /\ p \in 1..Len(payments)
    /\ Len(attempts) < MaxAttempts
    /\ LET n == attempt_count(p) + 1
           taken == \E a \in 1..Len(attempts) :
                        attempts[a].payment = p /\ attempts[a].attempt_number = n
       IN IF taken
          THEN /\ last' = NoCall
               /\ UNCHANGED attempts
          ELSE /\ attempts' = Append(attempts, NewAttempt(p, n))
               /\ last' = NoCall
    /\ UNCHANGED <<lands, purchases, payments, schedules, queue, inflight,
                   sentRefs, now, aux>>

CreateAttempt == Idle /\ \E p \in 1..MaxPayments : create_new_attempt(p)

\* --------------------------------------------------- verify_land_payment
\* What FlutterwaveService.verify_payment(...) gives the view: "successful" and
\* "failed" are results with success=True and that provider status; "error" is
\* a result with success=False (error response, timeout, retries exhausted,
\* exception inside verify_payment); "raised" is the call failing in the view.
GatewayVerifyResults == {"successful", "failed", "error", "raised"}

QueueHasRoom == Len(queue) + 4 <= MaxQueued

\* views.generate_installment_schedule: rows 1..total_installments are inserted
\* one by one; unique_together (purchase, installment_number) stops the loop
\* with IntegrityError at the first number that exists.
ScheduleClash(u) ==
    {i \in 1..purchases[u].total_installments : ScheduleRows(u, i) # {}}

ScheduleCreated(u) ==
    IF ~purchases[u].installment_plan THEN {}
    ELSE {[purchase |-> u, installment_number |-> i,
           amount |-> calculate_monthly_payment(purchases[u].total_land_price),
           is_paid |-> FALSE] :
             i \in {k \in 1..purchases[u].total_installments :
                        \A c \in ScheduleClash(u) : k < c}}

ScheduleRaises(u) == purchases[u].installment_plan /\ ScheduleClash(u) # {}

\* the first step of the view: the row is read, then the gateway is asked
VerifyBegin(b, p) ==
    /\ p \in 1..Len(payments)
    /\ IF payments[p].buyer # b
       THEN /\ last' = NoCall
            /\ UNCHANGED inflight
       ELSE /\ \E w \in 1..MaxInFlight :
                 /\ \A r \in inflight : r.w # w
                 /\ inflight' = inflight \cup {[w |-> w, p |-> p, snap |-> payments[p]]}
            /\ last' = NoCall
    /\ UNCHANGED <<lands, purchases, payments, attempts, schedules, queue,
                   sentRefs, now, aux>>

\* views.py 172-190: the purchase row the successful branch saves
VerifyPurchaseRow(pay, u) ==
    IF pay.payment_type = "full_payment"
    THEN [u EXCEPT !.status = "completed"]
    ELSE IF pay.payment_type = "down_payment"
    THEN [u EXCEPT !.status = "down_payment_paid", !.down_payment_paid = TRUE]
    ELSE IF pay.payment_type = "reservation_fee"
    THEN [u EXCEPT !.status = "reserved"]
    ELSE u

\* views.py 164-170: the payment row the successful branch saves
VerifyCompletedRow(snap) ==
    [snap EXCEPT !.status = "completed", !.paid_date = now,
                 !.flutterwave_response = <<"verify", "successful">>]

\* views.py 203-205: the payment row the other branch saves
VerifyFailedRow(snap) ==
    [snap EXCEPT !.status = "failed", !.flutterwave_response = <<"verify", "failed">>]

\* the branches of a view that does not look at result['success']
VerifyBranchByStatusOnly(result) ==
    IF result = "raised" THEN "except"
    ELSE IF result = "successful" THEN "completed"
    ELSE "failed"

\* views.py 159-212: which branch the view takes on what the call gave it
VerifyBranch(result) ==
    IF result = "raised" THEN "except"
    ELSE IF result = "error" THEN "not_success"
    ELSE IF result = "successful" THEN "completed"
    ELSE "failed"

\* the rest of the view, once the gateway has answered
VerifyFinish(r, result) ==
    /\ r \in inflight
    /\ inflight' = inflight \ {r}
    /\ LET p == r.p
           u == r.snap.purchase
           branch == VerifyBranch(result)
       IN
       CASE branch = "completed" ->
              /\ payments' = [payments EXCEPT ![p] = VerifyCompletedRow(r.snap)]
              /\ IF r.snap.payment_type = "down_payment" /\ ScheduleRaises(u)
                 THEN \* IntegrityError: the payment is saved, the rest is skipped
                      /\ schedules' = schedules \cup ScheduleCreated(u)
                      /\ last' = VerifyCall("500", p, result)
                      /\ UNCHANGED <<lands, purchases, queue>>
                 ELSE /\ QueueHasRoom
                      /\ lands' = IF r.snap.payment_type = "full_payment"
                                  THEN [lands EXCEPT ![purchases[u].land] = "sold"]
                                  ELSE lands
                      /\ schedules' = IF r.snap.payment_type = "down_payment"
                                      THEN schedules \cup ScheduleCreated(u)
                                      ELSE schedules
                      /\ purchases' = [purchases EXCEPT ![u] =
                             LandPurchaseSave(VerifyPurchaseRow(r.snap, purchases[u]))]
                      /\ queue' = trigger_land_post_payment_actions(queue, p)
                      /\ last' = VerifyCall("200", p, result)
         [] branch = "failed" ->
              /\ payments' = [payments EXCEPT ![p] = VerifyFailedRow(r.snap)]
              /\ last' = VerifyCall("400", p, result)
              /\ UNCHANGED <<lands, purchases, schedules, queue>>
         [] branch = "not_success" ->
              /\ last' = VerifyCall("400", p, result)
              /\ UNCHANGED <<lands, purchases, payments, schedules, queue>>
         [] branch = "except" ->
              /\ last' = VerifyCall("500", p, result)
              /\ UNCHANGED <<lands, purchases, payments, schedules, queue>>
    /\ UNCHANGED <<attempts, sentRefs, now, aux>>

VerifyRead == Idle /\ \E b \in Buyers, p \in 1..MaxPayments : VerifyBegin(b, p)

VerifyAnswer ==
    Idle /\ \E r \in inflight, result \in GatewayVerifyResults : VerifyFinish(r, result)

\* -------------------------------------------------------- handle_webhook
WebhookHash == "FLUTTERWAVE_WEBHOOK_HASH"
Events      == {"charge.completed", "charge.failed", "transfer.completed", "other.event"}
Shapes      == {"ok", "no_event", "no_data", "no_tx_ref"}

\* hmac.new(key, json.dumps(body)).hexdigest(): equal exactly for equal key and body
Hmac(key, body) == <<key, body>>
Missing == <<>>

Body(event, tx_ref, status, shape) ==
    [event |-> event, tx_ref |-> tx_ref, status |-> status, shape |-> shape]

\* another body, as a signature taken from a different request would cover
Other(body) == [body EXCEPT !.status = IF @ = "successful" THEN "failed" ELSE "successful"]

\* the verify_webhook_signature of a build that takes a request without the
\* header as one it need not check
verify_webhook_signature_unless_missing(webhook_data, signature) ==
    signature = Missing \/ signature = Hmac(WebhookHash, webhook_data)

\* signatures that do not verify: none, one made with another key, one made
\* for another body
BadSignatures(body) ==
    {Missing, Hmac("another key", body), Hmac(WebhookHash, Other(body))}

verify_webhook_signature(webhook_data, signature) ==
    IF signature = Missing THEN FALSE
    ELSE signature = Hmac(WebhookHash, webhook_data)

_validate_webhook_data(webhook_data) == webhook_data.shape = "ok"

PaymentsByTxRef(tx_ref) ==
    {p \in 1..Len(payments) : payments[p].flutterwave_tx_ref = tx_ref}

\* payment.attempts.filter(flutterwave_tx_ref=tx_ref).first(), newest first
AttemptByTxRef(p, tx_ref) ==
    LET S == {a \in 1..Len(attempts) :
                 attempts[a].payment = p /\ attempts[a].flutterwave_tx_ref = tx_ref}
    IN IF S = {} THEN 0 ELSE CHOOSE a \in S : \A b \in S : b <= a

Blob(data) == <<"webhook", data.status>>

\* flutterwave_service.py 425-431
HookCompletedRow(row, data) ==
    [row EXCEPT !.status = "completed", !.paid_date = now,
                !.flutterwave_response = Blob(data)]

\* flutterwave_service.py 457-459
HookFailedRow(row, data) ==
    [row EXCEPT !.status = "failed", !.flutterwave_response = Blob(data)]

\* _trigger_secure_post_payment_actions imports notify_sales_team_secure from
\* payments_app.tasks, which defines no such task: the import raises before the
\* first .delay(), so nothing is enqueued and the exception reaches handle_webhook.
_trigger_secure_post_payment_actions(q, p) == q

TriggerSecureRaises == TRUE

\* how the request was signed
SigClass(body, signature) ==
    IF signature = Missing THEN "missing"
    ELSE IF signature = Hmac(WebhookHash, body) THEN "valid" ELSE "invalid"

WebhookCall(ret, p, body, signature) ==
    [op |-> "webhook", ret |-> ret, p |-> p, status |-> body.status,
     sig |-> SigClass(body, signature),
     event |-> IF body.shape = "ok" THEN body.event ELSE "malformed",
     ref |-> body.tx_ref[1]]

_handle_successful_payment(data, signature) ==
    LET found == PaymentsByTxRef(data.tx_ref) IN
    IF found = {}
    THEN /\ last' = WebhookCall("False", 0, data, signature)
         /\ UNCHANGED <<payments, attempts, queue>>
    ELSE LET p == CHOOSE x \in found : TRUE
             a == AttemptByTxRef(p, data.tx_ref)
         IN /\ attempts' = IF a = 0 THEN attempts
                           ELSE [attempts EXCEPT ![a] = mark_completed(@, Blob(data))]
            /\ payments' = [payments EXCEPT ![p] = HookCompletedRow(@, data)]
            /\ queue' = _trigger_secure_post_payment_actions(queue, p)
            /\ last' = WebhookCall(IF TriggerSecureRaises THEN "False" ELSE "True",
                                   p, data, signature)

_handle_failed_payment(data, signature) ==
    LET found == PaymentsByTxRef(data.tx_ref) IN
    IF found = {}
    THEN /\ last' = WebhookCall("False", 0, data, signature)
         /\ UNCHANGED <<payments, attempts, queue>>
    ELSE LET p == CHOOSE x \in found : TRUE
             a == AttemptByTxRef(p, data.tx_ref)
         IN /\ attempts' = IF a = 0 THEN attempts
                           ELSE [attempts EXCEPT ![a] = mark_failed(@, Blob(data))]
            /\ payments' = [payments EXCEPT ![p] = HookFailedRow(@, data)]
            /\ last' = WebhookCall("True", p, data, signature)
            /\ UNCHANGED queue

handle_webhook(webhook_data, signature) ==
    /\ IF ~verify_webhook_signature(webhook_data, signature)
       THEN /\ last' = WebhookCall("False", 0, webhook_data, signature)
            /\ UNCHANGED <<payments, attempts, queue>>
       ELSE IF ~_validate_webhook_data(webhook_data)
       THEN /\ last' = WebhookCall("False", 0, webhook_data, signature)
            /\ UNCHANGED <<payments, attempts, queue>>
       ELSE IF webhook_data.event = "charge.completed"
       THEN _handle_successful_payment(webhook_data, signature)
       ELSE IF webhook_data.event = "charge.failed"
       THEN _handle_failed_payment(webhook_data, signature)
       ELSE /\ last' = WebhookCall("True", 0, webhook_data, signature)
            /\ UNCHANGED <<payments, attempts, queue>>
    /\ UNCHANGED <<lands, purchases, schedules, inflight, sentRefs, now, aux>>

\* The gateway signs events about the charges it was asked to make and about
\* charges of other integrations of the account; a charge.completed event
\* carries the charge's final status, successful or not.
EventStatuses(event) ==
    IF event = "charge.completed" THEN {"successful", "failed"}
    ELSE IF event = "charge.failed" THEN {"failed"}
    ELSE {"successful"}

SignedWebhook ==
    Idle /\
    \E event \in {"charge.completed", "charge.failed"},
       tx_ref \in sentRefs \cup {UnknownRef} :
      \E status \in EventStatuses(event) :
        LET body == Body(event, tx_ref, status, "ok")
        IN handle_webhook(body, Hmac(WebhookHash, body))

\* signed events the service has no handler for the payments in
OtherWebhook ==
    Idle /\
    \E event \in Events \ {"charge.completed", "charge.failed"} :
        LET body == Body(event, UnknownRef, "successful", "ok")
        IN handle_webhook(body, Hmac(WebhookHash, body))

MalformedWebhook ==
    Idle /\
    \E shape \in Shapes \ {"ok"} :
        LET body == Body("charge.completed", UnknownRef, "successful", shape)
        IN handle_webhook(body, Hmac(WebhookHash, body))

\* Anyone can post to the endpoint: a body that reports a payment's charge as
\* completed, under a signature that does not verify.
ForgedWebhook ==
    Idle /\
    \E p \in 1..Len(payments) :
        LET body == Body("charge.completed", payments[p].flutterwave_tx_ref,
                         "successful", "ok")
        IN \E signature \in BadSignatures(body) : handle_webhook(body, signature)

\* ------------------------------------------------------------- the jobs
RECURSIVE SumCompleted(_, _)
\* LandPayment.objects.filter(purchase=u, status='completed').aggregate(Sum('amount'))
SumCompleted(u, n) ==
    IF n = 0 THEN Zero
    ELSE MoneyPlus(SumCompleted(u, n - 1),
                   IF payments[n].purchase = u /\ payments[n].status = "completed"
                   THEN payments[n].amount ELSE Zero)

total_paid(u) == SumCompleted(u, Len(payments))

\* a chain that moves a purchase whose down payment is already recorded on to
\* in_progress
RollupPlanStepAdvancing(u, total) ==
    IF u.payment_type = "full_payment" /\ MoneyAtLeast(total, u.total_land_price)
    THEN [u EXCEPT !.status = "completed"]
    ELSE IF u.payment_type = "down_payment" /\ MoneyAtLeast(total, u.down_payment_amount)
    THEN [u EXCEPT !.status = IF u.down_payment_paid THEN "in_progress"
                              ELSE "down_payment_paid",
                   !.down_payment_paid = TRUE]
    ELSE IF u.payment_type = "reservation_fee" /\ MoneyPositive(total)
    THEN [u EXCEPT !.status = "reserved"]
    ELSE u

\* tasks.py 126-138: the first if / elif chain
RollupPlanStep(u, total) ==
    IF u.payment_type = "full_payment" /\ MoneyAtLeast(total, u.total_land_price)
    THEN [u EXCEPT !.status = "completed"]
    ELSE IF u.payment_type = "down_payment" /\ MoneyAtLeast(total, u.down_payment_amount)
    THEN [u EXCEPT !.status = "down_payment_paid", !.down_payment_paid = TRUE]
    ELSE IF u.payment_type = "reservation_fee" /\ MoneyPositive(total)
    THEN [u EXCEPT !.status = "reserved"]
    ELSE u

\* tasks.py 140-147: the installment plan is paid off
RollupPaidOff(u, total) ==
    u.installment_plan /\ u.down_payment_paid /\ MoneyAtLeast(total, u.total_land_price)

\* tasks.py 126-149: the purchase row the job saves
RollupRow(row, total) ==
    LET row1 == RollupPlanStep(row, total)
    IN LandPurchaseSave(IF RollupPaidOff(row1, total)
                        THEN [row1 EXCEPT !.status = "completed"] ELSE row1)

\* tasks.py 129-130, 146-147: purchase.land.status = 'sold'; purchase.land.save()
RollupLand(row, total, land_status) ==
    IF \/ (row.payment_type = "full_payment" /\ MoneyAtLeast(total, row.total_land_price))
       \/ RollupPaidOff(RollupPlanStep(row, total), total)
    THEN "sold" ELSE land_status

update_land_purchase_status(u) ==
    LET total == total_paid(u)
        l     == purchases[u].land
    IN /\ purchases' = [purchases EXCEPT ![u] = RollupRow(@, total)]
       /\ lands' = [lands EXCEPT ![l] = RollupLand(purchases[u], total, @)]
       /\ UNCHANGED payments

\* tasks.py 23-44: the row is read again and saved with the receipt added to
\* its metadata (a column the rows here do not carry)
generate_land_payment_receipt(p) ==
    /\ payments' = [payments EXCEPT ![p] = payments[p]]
    /\ UNCHANGED <<purchases, lands>>

\* tasks.py 62-96: the mail is sent and noted in the same column
send_land_payment_confirmation(p) ==
    /\ payments' = [payments EXCEPT ![p] = payments[p]]
    /\ UNCHANGED <<purchases, lands>>

\* tasks.py 167-221: a mail to the sales team; no row is written
notify_sales_team(u) == UNCHANGED <<payments, purchases, lands>>

\* a worker takes the oldest job and runs it
RunJob ==
    /\ Idle
    /\ queue # <<>>
    /\ queue' = Tail(queue)
    /\ LET task == Head(queue)[1]
           id   == Head(queue)[2]
       IN CASE task = "receipt"      -> generate_land_payment_receipt(id)
            [] task = "confirmation" -> send_land_payment_confirmation(id)
            [] task = "rollup"       -> update_land_purchase_status(id)
            [] task = "notify"       -> notify_sales_team(id)
    /\ last' = NoCall
    /\ UNCHANGED <<attempts, schedules, inflight, sentRefs, now, aux>>

\* the caller has its answer; the next call is served
Respond ==
    /\ last # NoCall
    /\ last' = NoCall
    /\ UNCHANGED <<lands, purchases, payments, attempts, schedules, queue,
                   inflight, sentRefs, now, aux>>

Next ==
    \/ Initiate
    \/ Installment
    \/ CreateAttempt
    \/ VerifyRead
    \/ VerifyAnswer
    \/ SignedWebhook
    \/ OtherWebhook
    \/ MalformedWebhook
    \/ ForgedWebhook
    \/ RunJob
    \/ Respond

Spec == Init /\ [][Next]_vars

\* ------------------------------------------- the life of an installment plan
\* A purchase on a plan after its down payment: initiate_land_payment
\* (down_payment, with a plan) was accepted, verify_land_payment found the
\* charge successful, and the four jobs ran.
PlanPurchase ==
    [LandPurchaseSave([NewPurchase(1, 1, "down_payment") EXCEPT !.installment_plan = TRUE])
        EXCEPT !.status = "down_payment_paid", !.down_payment_paid = TRUE]

PlanDownPayment ==
    [purchase |-> 1, buyer |-> 1, amount |-> PlanPurchase.down_payment_amount,
     payment_type |-> "down_payment", status |-> "completed",
     installment_number |-> NULL, paid_date |-> 0, created_at |-> 0,
     flutterwave_tx_ref |-> PaymentTxRef(1),
     flutterwave_response |-> <<"verify", "successful">>]

PlanAttempt ==
    [payment |-> 1, attempt_number |-> 1, status |-> "processing",
     flutterwave_tx_ref |-> AttemptTxRef(1),
     is_failed |-> FALSE, gateway_response |-> NoBlob, completed_at |-> FALSE]

PlanSchedule ==
    {[purchase |-> 1, installment_number |-> i,
      amount |-> calculate_monthly_payment(PlanPurchase.total_land_price),
      is_paid |-> FALSE] : i \in 1..PlanPurchase.total_installments}

DownPaymentSettled ==
    /\ lands = [l \in Lands |-> "available"]
    /\ purchases = <<PlanPurchase>>
    /\ payments = <<PlanDownPayment>>
    /\ attempts = <<PlanAttempt>>
    /\ schedules = PlanSchedule
    /\ queue = <<>>
    /\ inflight = {}
    /\ sentRefs = {AttemptTxRef(1)}
    /\ now = 0
    /\ last = NoCall
    /\ call = NoRequest
    /\ codes = <<>>
    /\ issuers = [w \in Workers |-> NotIssuing]
    /\ tokens = <<>>
    /\ reply = NoReply
    /\ procs = [w \in Workers |-> NoProc]
    /\ saved = NoRows

PlanInstallment ==
    /\ Idle
    /\ \E b \in Buyers, u \in 1..MaxPurchases, n \in 1..MaxInstallmentNo,
          gw \in {"accepted", "refused"} :
          PayInstallmentUpTo(b, u, n, gw, MaxPlanPayments)

PlanVerifyRead == Idle /\ \E b \in Buyers, p \in 1..MaxPlanPayments : VerifyBegin(b, p)

NextInstallments ==
    \/ PlanInstallment
    \/ PlanVerifyRead
    \/ VerifyAnswer
    \/ SignedWebhook
    \/ RunJob
    \/ Respond

SpecInstallments == DownPaymentSettled /\ [][NextInstallments]_vars

\* ------------------------------------------- cleanup_old_pending_payments
\* the sweep that takes a payment at the cutoff itself for an old one
StaleAtCutoff(row) ==
    row.status = "pending" /\ row.created_at <= now - SweepAgeHours

\* tasks.py 351-356: filter(status='pending', created_at__lt=cutoff_time)
Stale(row) ==
    row.status = "pending" /\ row.created_at < now - SweepAgeHours

RECURSIVE SweepRows(_)
\* tasks.py 360-363: each row of the queryset is saved as expired (the stamp
\* goes to metadata, a column the rows here do not carry)
SweepRows(n) ==
    IF n = 0 THEN <<>>
    ELSE Append(SweepRows(n - 1),
                IF Stale(payments[n]) THEN [payments[n] EXCEPT !.status = "expired"]
                ELSE payments[n])

SweepCall == [NoCall EXCEPT !.op = "sweep", !.ret = "cleaned"]

cleanup_old_pending_payments ==
    /\ Idle
    /\ payments' = SweepRows(Len(payments))
    /\ last' = SweepCall
    /\ UNCHANGED <<lands, purchases, attempts, schedules, queue, inflight,
                   sentRefs, now, aux>>

\* time passes between calls
Tick ==
    /\ Idle
    /\ now + TickHours <= MaxTime
    /\ now' = now + TickHours
    /\ UNCHANGED <<lands, purchases, payments, attempts, schedules, queue,
                   inflight, sentRefs, last, aux>>

NextSweep ==
    \/ Tick
    \/ cleanup_old_pending_payments
    \/ Initiate
    \/ Installment
    \/ VerifyRead
    \/ VerifyAnswer
    \/ SignedWebhook
    \/ Respond

SpecSweep == Init /\ [][NextSweep]_vars

\* ------------------------------------------------------ FlutterwaveService
\* The payment_data the callers build: every key is there (views.py 96-106,
\* 317-327); the email is the user's, which may be empty; the name is the
\* user's first and last name around a space, a lone space when the user has
\* neither.
TxRefs == {Field(<<>>), Field(<<"r", "e", "f">>)}
Emails == {Field(<<>>), Field(<<"t", ".", "n", "g">>),
           Field(<<"t", "@", "e", ".", "n", "g">>)}
Names  == {Field(<<>>), Field(<<" ">>), Field(<<"T", " ", "U">>)}
Amounts ==
    {NotANumber}
        \cup {Number(v) : v \in {-100, 0, RequestAmount, AmountCeiling, AmountCeiling + 1}}

PaymentData ==
    [tx_ref : TxRefs, amount : Amounts, customer_email : Emails, customer_name : Names]

\* "not payment_data.get('tx_ref')", "not customer_data[field]"
Falsy(f) == f.value = <<>>

\* '@' in customer_data['email']
HasAt(v) == \E i \in 1..Len(v) : v[i] = "@"

\* _validate_input_amount: float(amount) is read, must be above 0 and at most
\* the limit; every failure leaves as ValueError
_validate_input_amount(amount) ==
    amount.form = "number" /\ ValidInputAmount(Money(amount.value, 0))

RECURSIVE LStrip(_)
LStrip(v) == IF v # <<>> /\ Head(v) = " " THEN LStrip(Tail(v)) ELSE v

RECURSIVE RStrip(_)
RStrip(v) ==
    IF v # <<>> /\ v[Len(v)] = " " THEN RStrip(SubSeq(v, 1, Len(v) - 1)) ELSE v

\* str.strip(): the text without the spaces at its ends
Strip(v) == RStrip(LStrip(v))

\* _sanitize_customer_data, lines 82-89: the checks, made on the values as
\* they were passed
_sanitize_customer_data(email, name) ==
    ~Falsy(email) /\ ~Falsy(name) /\ HasAt(email.value)

\* _sanitize_customer_data, lines 91-95: the customer the gateway is sent
Customer(pd) ==
    [email |-> Strip(pd.customer_email.value), name |-> Strip(pd.customer_name.value)]

\* initialize_payment, lines 148-158 and 216-222: what the checks before the
\* request come to; each failure is a ValueError
InitializeChecks(pd) ==
    IF Falsy(pd.tx_ref) THEN "validation_error"
    ELSE IF ~_validate_input_amount(pd.amount) THEN "validation_error"
    ELSE IF ~_sanitize_customer_data(pd.customer_email, pd.customer_name)
    THEN "validation_error"
    ELSE "request"

Returned(c, success, code) ==
    [c EXCEPT !.phase = "returned", !.success = success, !.code = code]

initialize_payment ==
    /\ call.phase = "idle"
    /\ \E pd \in PaymentData :
          LET c == [NoRequest EXCEPT !.op = "initialize_payment", !.pd = pd]
          IN call' = IF InitializeChecks(pd) = "request"
                     THEN [c EXCEPT !.phase = "requesting"]
                     ELSE Returned(c, FALSE, InitializeChecks(pd))
    /\ UNCHANGED <<lands, purchases, payments, attempts, schedules, queue,
                   inflight, sentRefs, now, last, codes, issuers, tokens, reply, procs, saved>>

\* verify_payment: a transaction id that holds nothing raises ValueError, which
\* the method's only handler answers
verify_payment ==
    /\ call.phase = "idle"
    /\ \E transaction_id \in TxRefs :
          LET c == [NoRequest EXCEPT !.op = "verify_payment"]
          IN call' = IF Falsy(transaction_id)
                     THEN Returned(c, FALSE, "service_unavailable")
                     ELSE [c EXCEPT !.phase = "requesting"]
    /\ UNCHANGED <<lands, purchases, payments, attempts, schedules, queue,
                   inflight, sentRefs, now, last, codes, issuers, tokens, reply, procs, saved>>

\* how one requests.request call ends: a response (accepted by the gateway or
\* not), or one of the exceptions _make_secure_request tells apart
Responses == {"response_success", "response_error"}
RequestOutcomes ==
    Responses \cup {"timeout", "ssl_error", "connection_error", "other_error"}

\* a loop that goes round again after an SSL error too
RetriedWithSSL(outcome) == outcome \in {"timeout", "connection_error", "ssl_error"}

\* flutterwave_service.py 122-136: the handlers that end in "continue"
Retried(outcome) == outcome \in {"timeout", "connection_error"}

\* one round of the loop of _make_secure_request and, when the loop ends, the
\* rest of the calling method: a response is returned to it and read; an
\* exception raised by the loop, or "Max retries exceeded" after it, is
\* answered by the method's handler for Exception.
SecureRequest ==
    /\ call.phase = "requesting"
    /\ call.attempt < MaxRetries
    /\ \E outcome \in RequestOutcomes :
          LET c == [call EXCEPT !.sends = @ + 1,
                                !.outcomes = Append(@, outcome)]
          IN call' =
               IF outcome = "response_success" THEN Returned(c, TRUE, "success")
               ELSE IF outcome = "response_error" THEN Returned(c, FALSE, "error")
               ELSE IF Retried(outcome)
               THEN LET d == [c EXCEPT !.attempt = @ + 1,
                                       !.slept = IF call.attempt < MaxRetries - 1
                                                 THEN Append(@, RetryDelay * (call.attempt + 1))
                                                 ELSE @]
                    IN IF d.attempt = MaxRetries
                       THEN Returned(d, FALSE, "service_unavailable")
                       ELSE d
               ELSE Returned(c, FALSE, "service_unavailable")
    /\ UNCHANGED <<lands, purchases, payments, attempts, schedules, queue,
                   inflight, sentRefs, now, last, codes, issuers, tokens, reply, procs, saved>>

\* the caller has the result dictionary
CallDone ==
    /\ call.phase = "returned"
    /\ call' = NoRequest
    /\ UNCHANGED <<lands, purchases, payments, attempts, schedules, queue,
                   inflight, sentRefs, now, last, codes, issuers, tokens, reply, procs, saved>>

NextGateway ==
    \/ initialize_payment
    \/ verify_payment
    \/ SecureRequest
    \/ CallDone

SpecGateway == Init /\ [][NextGateway]_vars

\* requests.request is made with timeout=self.timeout and time.sleep returns:
\* a round of the loop that can be taken is taken
SpecGatewayLive == SpecGateway /\ WF_vars(SecureRequest)

\* ------------------------------------------------ TwoFactorService.generate_otp
\* (in this specification the clock counts minutes)
OtpUsers == 1..NumUsers

\* filter(user=user, is_used=False, expires_at__gt=timezone.now())
Live(u) ==
    {i \in 1..Len(codes) :
        codes[i].user = u /\ ~codes[i].is_used /\ codes[i].expires_at > now}

RECURSIVE InvalidateRows(_, _)
\* .update(is_used=True) on the rows the filter selects
InvalidateRows(u, n) ==
    IF n = 0 THEN <<>>
    ELSE Append(InvalidateRows(u, n - 1),
                IF n \in Live(u) THEN [codes[n] EXCEPT !.is_used = TRUE] ELSE codes[n])

Issuing == {w \in Workers : issuers[w].pc # "idle"}

\* users_app/models.py 18: User.is_2fa_enabled, False unless switched on; the
\* odd-numbered users have switched it on
is_2fa_enabled(u) == u % 2 = 1

\* the users no row of User carries the request's email for
UnknownUser == 0

\* services.py 33: str(random.randint(100000, 999999)); totp.now() likewise
\* gives six digits
OtpValues == {"123456", "654321"}

\* a body VerifyOTPSerializer refuses: otp shorter than min_length=6
ShortOtp == "12"

\* models.py 20-22
is_expired(row) == now > row.expires_at

\* models.py 24-27
increment_attempts(row) == [row EXCEPT !.attempts = row.attempts + 1]

\* models.py 29-32
mark_used(row) == [row EXCEPT !.is_used = TRUE]

\* views.py 46: RefreshToken.for_user(user)
for_user(u, view) == [user |-> u, by |-> view]

Reply(op, status, error, u, otp, issued) ==
    [op |-> op, status |-> status, error |-> error, user |-> u, otp |-> otp,
     issued |-> issued, at |-> now]

\* views.py 26-41: no user has the email, or check_password fails
LoginRejected ==
    \E u \in OtpUsers \cup {UnknownUser} :
        /\ reply' = Reply("login_with_2fa", "401", "Invalid credentials", u, "none", FALSE)
        /\ UNCHANGED <<lands, purchases, payments, attempts, schedules, queue,
                       inflight, sentRefs, now, last, call, procs, saved, codes, issuers, tokens>>

\* views.py 44-51: the password is right and the user has no two-factor login;
\* the JWT pair is returned at once
LoginWithout2fa ==
    \E u \in OtpUsers :
        /\ ~is_2fa_enabled(u)
        /\ Len(tokens) < MaxTokens
        /\ tokens' = Append(tokens, for_user(u, "login_with_2fa"))
        /\ reply' = Reply("login_with_2fa", "200", "none", u, "none", TRUE)
        /\ UNCHANGED <<lands, purchases, payments, attempts, schedules, queue,
                       inflight, sentRefs, now, last, call, procs, saved, codes, issuers>>

\* views.py 54 -> services.py 20-24: the first statement of generate_otp, one
\* UPDATE. The function runs in the request's own process with no transaction
\* or lock around it, so other requests run between its two statements.
GenerateOtpInvalidate ==
    \E w \in Workers, u \in OtpUsers :
        /\ is_2fa_enabled(u)
        /\ issuers[w].pc = "idle"
        /\ Len(codes) + Cardinality(Issuing) < MaxCodes
        /\ codes' = InvalidateRows(u, Len(codes))
        /\ issuers' = [issuers EXCEPT ![w] = [pc |-> "invalidated", user |-> u]]
        /\ UNCHANGED <<lands, purchases, payments, attempts, schedules, queue,
                       inflight, sentRefs, now, last, call, procs, saved, tokens, reply>>

\* services.py 26-44: the code is drawn and the row inserted (attempts and
\* is_used take their defaults); views.py 57-67: it is sent and the view answers
GenerateOtpCreate ==
    \E w \in Workers, otp \in OtpValues :
        /\ issuers[w].pc = "invalidated"
        /\ codes' = Append(codes, [user |-> issuers[w].user, otp |-> otp,
                                   is_used |-> FALSE, attempts |-> 0,
                                   expires_at |-> now + OtpLifetime])
        /\ issuers' = [issuers EXCEPT ![w] = NotIssuing]
        /\ reply' = Reply("login_with_2fa", "200", "none", issuers[w].user, "none", FALSE)
        /\ UNCHANGED <<lands, purchases, payments, attempts, schedules, queue,
                       inflight, sentRefs, now, last, call, procs, saved, tokens>>

\* views.py 72-106. VerifyOTPSerializer refuses a short otp (400); an unknown
\* email is answered 404; otherwise line 89 calls TwoFactorService.verify_otp,
\* which services.py does not define: the AttributeError leaves the view, no
\* row is read or written, no token is made and the request is answered 500.
verify_2fa ==
    \E u \in OtpUsers \cup {UnknownUser}, otp \in OtpValues \cup {ShortOtp} :
        /\ reply' = IF otp = ShortOtp
                      THEN Reply("verify_2fa", "400", "otp", u, otp, FALSE)
                    ELSE IF u = UnknownUser
                      THEN Reply("verify_2fa", "404", "User not found", u, otp, FALSE)
                    ELSE Reply("verify_2fa", "500", "AttributeError", u, otp, FALSE)
        /\ UNCHANGED <<lands, purchases, payments, attempts, schedules, queue,
                       inflight, sentRefs, now, last, call, procs, saved, codes, issuers, tokens>>

OtpTick ==
    /\ now + OtpTickMinutes <= MaxOtpTime
    /\ now' = now + OtpTickMinutes
    /\ UNCHANGED <<lands, purchases, payments, attempts, schedules, queue,
                   inflight, sentRefs, last, aux>>

NextOtp ==
    \/ LoginRejected
    \/ LoginWithout2fa
    \/ GenerateOtpInvalidate
    \/ GenerateOtpCreate
    \/ verify_2fa
    \/ OtpTick

SpecOtp == Init /\ [][NextOtp]_vars

\* --------------------------------- LandPayment.create_new_attempt, in steps
\* The method is a SELECT COUNT followed by an INSERT with no transaction or
\* lock around them; calls for one payment made by two processes interleave
\* between the two statements.

\* models.py 160-167: attempt_number = self.attempt_count + 1
AttemptCount ==
    \E w \in Workers, p \in 1..Len(payments) :
        /\ procs[w].pc # "counted"
        /\ Len(attempts) < MaxLedger
        /\ procs' = [procs EXCEPT ![w] =
                        [NoProc EXCEPT !.pc = "counted", !.p = p,
                                       !.n = attempt_count(p) + 1]]
        /\ UNCHANGED <<lands, purchases, payments, attempts, schedules, queue,
                       inflight, sentRefs, now, last, call, codes, issuers,
                       tokens, reply, saved>>

\* the INSERT goes through whatever rows exist
InsertAttemptUnchecked(p, n) == FALSE

\* models.py 236-238: unique_together (payment, attempt_number); the INSERT of
\* a pair some row already has raises IntegrityError
InsertAttemptRaises(p, n) ==
    \E a \in 1..Len(attempts) :
        attempts[a].payment = p /\ attempts[a].attempt_number = n

\* models.py 169-173: PaymentAttempt.objects.create(...)
AttemptInsert ==
    \E w \in Workers :
        /\ procs[w].pc = "counted"
        /\ LET p == procs[w].p
               n == procs[w].n
           IN IF InsertAttemptRaises(p, n)
              THEN /\ procs' = [procs EXCEPT ![w].pc = "raised"]
                   /\ UNCHANGED attempts
              ELSE /\ Len(attempts) < MaxLedger
                   /\ attempts' = Append(attempts, NewAttempt(p, n))
                   /\ procs' = [procs EXCEPT ![w].pc = "created"]
        /\ UNCHANGED <<lands, purchases, payments, schedules, queue, inflight,
                       sentRefs, now, last, call, codes, issuers, tokens, reply, saved>>

NextAttempts ==
    \/ Initiate
    \/ AttemptCount
    \/ AttemptInsert

SpecAttempts == Init /\ [][NextAttempts]_vars

\* ------------------------------------ PaymentAttempt.mark_*, called directly
\* The three methods are the ledger's interface; they take the row as it is
\* (none of them reads self.status first).

\* what a caller passes as gateway_data (tests.py 128, 140), or nothing
GatewayData == {NoBlob, <<"caller", "success">>, <<"caller", "failed">>}

\* models.py 263-267
MarkProcessing ==
    \E a \in 1..Len(attempts) :
        /\ attempts' = [attempts EXCEPT ![a] = mark_processing(@)]
        /\ UNCHANGED <<lands, purchases, payments, schedules, queue, inflight,
                       sentRefs, now, last, aux>>

\* models.py 269-275
MarkCompleted ==
    \E a \in 1..Len(attempts), gateway_data \in GatewayData :
        /\ attempts' = [attempts EXCEPT ![a] = mark_completed(@, gateway_data)]
        /\ UNCHANGED <<lands, purchases, payments, schedules, queue, inflight,
                       sentRefs, now, last, aux>>

\* models.py 277-285
MarkFailed ==
    \E a \in 1..Len(attempts), gateway_data \in GatewayData :
        /\ attempts' = [attempts EXCEPT ![a] = mark_failed(@, gateway_data)]
        /\ UNCHANGED <<lands, purchases, payments, schedules, queue, inflight,
                       sentRefs, now, last, aux>>

NextLedger ==
    \/ Initiate
    \/ CreateAttempt
    \/ MarkProcessing
    \/ MarkCompleted
    \/ MarkFailed

SpecLedger == Init /\ [][NextLedger]_vars

\* ------------------------------ initiate_land_payment, served by two workers
\* LandPurchase.objects.get_or_create is a SELECT followed, when it finds no
\* row, by an INSERT. LandPurchase has no uniqueness constraint over (land,
\* buyer, status) (models.py 8-81), so the INSERT goes through whatever other
\* requests inserted after the SELECT.

\* views.py 44-47: the SELECT; more than one matching row makes get() raise
\* MultipleObjectsReturned, which line 136 answers with 500
GetDraft ==
    \E w \in Workers, b \in Buyers, l \in Lands :
        /\ procs[w].pc # "selected"
        /\ lands[l] \in {"available", "reserved"}
        /\ Len(payments) + Cardinality({v \in Workers : procs[v].pc = "selected"})
              < MaxPayments
        /\ procs' = [procs EXCEPT ![w] =
              IF Cardinality(DraftPurchases(b, l)) > 1
              THEN [NoProc EXCEPT !.pc = "raised", !.b = b, !.l = l]
              ELSE [NoProc EXCEPT !.pc = "selected", !.b = b, !.l = l,
                       !.n = IF DraftPurchases(b, l) = {} THEN 0
                             ELSE CHOOSE x \in DraftPurchases(b, l) : TRUE]]
        /\ UNCHANGED <<lands, purchases, payments, attempts, schedules, queue,
                       inflight, sentRefs, now, last, call, codes, issuers,
                       tokens, reply, saved>>

\* views.py 48-134: the INSERT of get_or_create and the rest of the handler
InitiateAfterGet ==
    \E w \in Workers, ptype \in PaymentTypes, withPlan \in BOOLEAN,
       reqAmount \in ReqAmounts, gw \in GatewayInitResults :
        /\ procs[w].pc = "selected"
        /\ InitiateLandPaymentFrom(procs[w].b, procs[w].l, ptype, withPlan,
                                   reqAmount, gw, procs[w].n, MaxDrafts)
        /\ procs' = [procs EXCEPT ![w].pc = "answered"]
        /\ UNCHANGED <<call, codes, issuers, tokens, reply, saved>>

NextDrafts ==
    \/ GetDraft
    \/ InitiateAfterGet

SpecDrafts == Init /\ [][NextDrafts]_vars

\* ----------------------------------- the references LandPayment.save and
\* PaymentAttempt.save write (in this specification the clock counts seconds)
\* A reference is the tuple of the parts its f-string joins. The uuid4 part is
\* a draw from Suffixes.
Suffixes == 1..NumSuffixes

\* the column as a new object has it: ''
NoRef == <<>>

\* payments_app/tests.py 85: a caller may pass flutterwave_tx_ref to create()
SuppliedRefs == {NoRef, <<"test_ref_123">>}

\* save() writes the reference again at every call
LandPaymentSaveAlways(row, sfx) ==
    [row EXCEPT !.payment_reference = <<"LAND-PAY", now, sfx>>,
                !.flutterwave_tx_ref = <<"land", <<"LAND-PAY", now, sfx>>, now>>]

\* models.py 139-147
LandPaymentSave(row, sfx) ==
    LET named == IF row.payment_reference = NoRef
                 THEN [row EXCEPT !.payment_reference = <<"LAND-PAY", now, sfx>>]
                 ELSE row
    IN IF named.flutterwave_tx_ref = NoRef
       THEN [named EXCEPT !.flutterwave_tx_ref = <<"land", named.payment_reference, now>>]
       ELSE named

\* models.py 243-257
PaymentAttemptSaveRef(row, sfx) ==
    PaymentAttemptSave(
        IF row.flutterwave_tx_ref = NoRef
        THEN [row EXCEPT !.flutterwave_tx_ref = <<"myhouse_attempt", now, sfx>>]
        ELSE row)

\* models.py 103, 123: payment_reference and flutterwave_tx_ref are unique=True
PaymentInsertRaises(row) ==
    \E p \in 1..Len(saved.payments) :
        \/ saved.payments[p].payment_reference = row.payment_reference
        \/ saved.payments[p].flutterwave_tx_ref = row.flutterwave_tx_ref

\* models.py 222: flutterwave_tx_ref is unique=True; 238: unique_together
AttemptInsertRaises(row) ==
    \E a \in 1..Len(saved.attempts) :
        \/ saved.attempts[a].flutterwave_tx_ref = row.flutterwave_tx_ref
        \/ /\ saved.attempts[a].payment = row.payment
           /\ saved.attempts[a].attempt_number = row.attempt_number

\* LandPayment.objects.create(...): views.py 70-84, 296-312
CreatePaymentRow ==
    \E sfx \in Suffixes, supplied \in SuppliedRefs :
        LET row == LandPaymentSave([payment_reference |-> NoRef,
                                    flutterwave_tx_ref |-> supplied,
                                    status |-> "pending"], sfx)
        IN /\ Len(saved.payments) < MaxSavedRows
           /\ saved' = IF PaymentInsertRaises(row) THEN saved
                      ELSE [saved EXCEPT !.payments = Append(@, row)]
           /\ UNCHANGED <<lands, purchases, payments, attempts, schedules, queue,
                          inflight, sentRefs, now, last, call, codes, issuers,
                          tokens, reply, procs>>

\* payment.status = ...; payment.save(): views.py 113-114, 166-170 (the other
\* statuses are saved in the same way)
SavePaymentRow ==
    \E p \in 1..Len(saved.payments), sfx \in Suffixes,
       st \in {"processing", "completed"} :
        /\ saved' = [saved EXCEPT !.payments[p] =
                        LandPaymentSave([@ EXCEPT !.status = st], sfx)]
        /\ UNCHANGED <<lands, purchases, payments, attempts, schedules, queue,
                       inflight, sentRefs, now, last, call, codes, issuers,
                       tokens, reply, procs>>

\* PaymentAttempt.objects.create(...): views.py 87-91, models.py 165-173
CreateAttemptRow ==
    \E p \in 1..Len(saved.payments), sfx \in Suffixes :
        LET n   == Cardinality({a \in 1..Len(saved.attempts) :
                                   saved.attempts[a].payment = p}) + 1
            row == PaymentAttemptSaveRef(
                       [payment |-> p, attempt_number |-> n, status |-> "initiated",
                        flutterwave_tx_ref |-> NoRef, is_failed |-> FALSE,
                        gateway_response |-> NoBlob, completed_at |-> FALSE], sfx)
        IN /\ Len(saved.attempts) < MaxSavedRows
           /\ saved' = IF AttemptInsertRaises(row) THEN saved
                      ELSE [saved EXCEPT !.attempts = Append(@, row)]
           /\ UNCHANGED <<lands, purchases, payments, attempts, schedules, queue,
                          inflight, sentRefs, now, last, call, codes, issuers,
                          tokens, reply, procs>>

\* mark_processing / mark_completed: models.py 263-275 (mark_failed saves in
\* the same way)
SaveAttemptRow ==
    \E a \in 1..Len(saved.attempts), sfx \in Suffixes,
       st \in {"processing", "completed"} :
        /\ saved' = [saved EXCEPT !.attempts[a] =
                        PaymentAttemptSaveRef([@ EXCEPT !.status = st], sfx)]
        /\ UNCHANGED <<lands, purchases, payments, attempts, schedules, queue,
                       inflight, sentRefs, now, last, call, codes, issuers,
                       tokens, reply, procs>>

RefTick ==
    /\ now < MaxRefTime
    /\ now' = now + 1
    /\ UNCHANGED <<lands, purchases, payments, attempts, schedules, queue,
                   inflight, sentRefs, last, aux>>

NextRefs ==
    \/ CreatePaymentRow
    \/ SavePaymentRow
    \/ CreateAttemptRow
    \/ SaveAttemptRow
    \/ RefTick

SpecRefs == Init /\ [][NextRefs]_vars

\* --------------------------------------------------- the jobs on their workers
\* @shared_task(bind=True, max_retries=...): 3, and 2 for notify_sales_team
TaskMaxRetries   == 3
NotifyMaxRetries == 2

max_retries(task) == IF task = "notify" THEN NotifyMaxRetries ELSE TaskMaxRetries

\* a retry that sends the message once more than the limit allows
RetryOnceMore(q, task, id, n) ==
    IF n > max_retries(task) THEN q ELSE Append(q, <<task, id, n + 1>>)

\* self.retry(countdown=30, exc=e) in the except clauses: the message is sent
\* again with request.retries one higher; once request.retries has reached
\* max_retries the exception is raised instead and the job is over
Retry(q, task, id, n) ==
    IF n >= max_retries(task) THEN q ELSE Append(q, <<task, id, n + 1>>)

\* the jobs that load the payment row and save it (tasks.py 23, 62)
LoadsPayment(task) == task \in {"receipt", "confirmation"}

\* a worker takes the oldest message and the job starts: the row is loaded
JobStart(w) ==
    /\ procs[w].pc # "running"
    /\ queue # <<>>
    /\ queue' = Tail(queue)
    /\ LET task == Head(queue)[1]
           id   == Head(queue)[2]
       IN procs' = [procs EXCEPT ![w] =
              [NoProc EXCEPT !.pc = "running", !.task = task, !.p = id,
                             !.n = Head(queue)[3],
                             !.row = IF LoadsPayment(task) THEN payments[id]
                                     ELSE NoRow]]
    /\ UNCHANGED <<lands, purchases, payments, attempts, schedules, inflight,
                   sentRefs, now, last, call, codes, issuers, tokens, reply, saved>>

\* the job ends: it raised (a mail that could not be sent, a database error)
\* and is retried, or it saves what it loaded and returns
JobEnd(w, raised) ==
    /\ procs[w].pc = "running"
    /\ LET task == procs[w].task
           id   == procs[w].p
           q    == Retry(queue, task, id, procs[w].n)
       IN IF raised
          THEN /\ queue' = q
               /\ procs' = [procs EXCEPT ![w].pc =
                               IF q = queue THEN "gave_up" ELSE "retried"]
               /\ UNCHANGED <<payments, purchases, lands>>
          ELSE /\ queue' = queue
               /\ procs' = [procs EXCEPT ![w].pc = "succeeded"]
               /\ CASE LoadsPayment(task) ->
                         \* payment.save(): every column, as it was loaded
                         /\ payments' = [payments EXCEPT ![id] = procs[w].row]
                         /\ UNCHANGED <<purchases, lands>>
                    [] task = "rollup" -> update_land_purchase_status(id)
                    [] task = "notify" -> notify_sales_team(id)
    /\ UNCHANGED <<attempts, schedules, inflight, sentRefs, now, last, call,
                   codes, issuers, tokens, reply, saved>>

\* How a run can end. The receipt job puts a datetime (payment_date) into
\* metadata, a JSONField without an encoder (models.py 134): its payment.save()
\* raises TypeError on every run. The other jobs end either way.
JobOutcomes(task) == IF task = "receipt" THEN {TRUE} ELSE BOOLEAN

JobTake   == \E w \in Workers : JobStart(w)
JobFinish == \E w \in Workers : \E raised \in JobOutcomes(procs[w].task) : JobEnd(w, raised)

\* the runs while the mail service and the database answer: only the receipt
\* job raises
JobReturn == \E w \in Workers : JobEnd(w, procs[w].task = "receipt")

\* A full payment that initiate_land_payment had accepted by the gateway.
FullPurchase == NewPurchase(1, 1, "full_payment")

FullPayment ==
    [purchase |-> 1, buyer |-> 1, amount |-> Money(LandPrice, 0),
     payment_type |-> "full_payment", status |-> "processing",
     installment_number |-> NULL, paid_date |-> NULL, created_at |-> 0,
     flutterwave_tx_ref |-> PaymentTxRef(1), flutterwave_response |-> NoBlob]

\* ... and that verify_land_payment has found successful: the four jobs wait
FullPaymentVerified ==
    /\ lands = [l \in Lands |-> IF l = 1 THEN "sold" ELSE "available"]
    /\ purchases = <<[FullPurchase EXCEPT !.status = "completed"]>>
    /\ payments = <<[FullPayment EXCEPT !.status = "completed", !.paid_date = 0,
                        !.flutterwave_response = <<"verify", "successful">>]>>
    /\ attempts = <<PlanAttempt>>
    /\ schedules = {}
    /\ queue = <<<<"receipt", 1, 0>>, <<"confirmation", 1, 0>>,
                 <<"rollup", 1, 0>>, <<"notify", 1, 0>>>>
    /\ inflight = {}
    /\ sentRefs = {AttemptTxRef(1)}
    /\ now = 0
    /\ last = NoCall
    /\ call = NoRequest
    /\ codes = <<>>
    /\ issuers = [w \in Workers |-> NotIssuing]
    /\ tokens = <<>>
    /\ reply = NoReply
    /\ procs = [w \in Workers |-> NoProc]
    /\ saved = NoRows

FullPaymentProcessing ==
    /\ lands = [l \in Lands |-> "available"]
    /\ purchases = <<FullPurchase>>
    /\ payments = <<FullPayment>>
    /\ attempts = <<PlanAttempt>>
    /\ schedules = {}
    /\ queue = <<>>
    /\ inflight = {}
    /\ sentRefs = {AttemptTxRef(1)}
    /\ now = 0
    /\ last = NoCall
    /\ call = NoRequest
    /\ codes = <<>>
    /\ issuers = [w \in Workers |-> NotIssuing]
    /\ tokens = <<>>
    /\ reply = NoReply
    /\ procs = [w \in Workers |-> NoProc]
    /\ saved = NoRows

\* the buyer's client asks verify_land_payment about the payment, more than
\* once if it likes, while the workers run the jobs
NextJobs ==
    \/ VerifyRead
    \/ VerifyAnswer
    \/ JobTake
    \/ JobReturn
    \/ Respond

SpecJobs == FullPaymentProcessing /\ [][NextJobs]_vars

\* ------------------------------------------- what the provider confirmed
\* amounts the provider can confirm for a charge of `asked`: nothing, one
\* naira, the amount asked
ConfirmedAmounts(asked) == {Zero, Money(1, 0), asked}

\* FlutterwaveService._validate_transaction_data: the amount is above 0 and at
\* most the ceiling
_validate_transaction_data(amount) ==
    MoneyPositive(amount) /\ MoneyAtLeast(Money(AmountCeiling, 0), amount)

\* the result dictionary of verify_payment for a transaction of that status
\* and amount: success=False when the validation fails
VerifyResult(status, amount) ==
    [status |-> IF status \in {"successful", "failed"}
                   /\ ~_validate_transaction_data(amount)
                THEN "error" ELSE status,
     amount |-> amount]

\* verify_land_payment reads result['success'], result['status'] and
\* result.get('payment_type') of the dictionary, and stores it
VerifyFinishConfirmed(r, result) == VerifyFinish(r, result.status)

VerifyAnswerConfirmed ==
    Idle /\
    \E r \in inflight, status \in GatewayVerifyResults :
      \E amount \in ConfirmedAmounts(r.snap.amount) :
        VerifyFinishConfirmed(r, VerifyResult(status, amount))

\* the body of a charge event, with data.amount
ChargeBody(event, tx_ref, status, amount) ==
    [event |-> event, tx_ref |-> tx_ref, status |-> status, shape |-> "ok",
     amount |-> amount]

SignedWebhookConfirmed ==
    Idle /\
    \E event \in {"charge.completed", "charge.failed"},
       tx_ref \in sentRefs \cup {UnknownRef} :
      \E status \in EventStatuses(event),
         amount \in {Zero} \cup UNION {ConfirmedAmounts(payments[p].amount) :
                                          p \in PaymentsByTxRef(tx_ref)} :
        LET body == ChargeBody(event, tx_ref, status, amount)
        IN handle_webhook(body, Hmac(WebhookHash, body))

NextAmounts ==
    \/ PlanInstallment
    \/ PlanVerifyRead
    \/ VerifyAnswerConfirmed
    \/ SignedWebhookConfirmed
    \/ RunJob
    \/ Respond

SpecAmounts == DownPaymentSettled /\ [][NextAmounts]_vars

\* ------------------------------------------------- several buyers, one land
LandBuyers == 1..MaxLandBuyers

\* initiate_land_payment by any of the buyers, each with a draft of their own
InitiateForLand ==
    /\ Idle
    /\ \E b \in LandBuyers, l \in Lands, gw \in GatewayInitResults :
          /\ Cardinality(DraftPurchases(b, l)) <= 1
          /\ InitiateLandPaymentFrom(b, l, "full_payment", FALSE, NoAmount, gw,
                 IF DraftPurchases(b, l) = {} THEN 0
                 ELSE CHOOSE x \in DraftPurchases(b, l) : TRUE,
                 MaxLandBuyers)
          /\ UNCHANGED aux

VerifyReadForLand ==
    Idle /\ \E b \in LandBuyers, p \in 1..MaxPayments : VerifyBegin(b, p)

NextLand ==
    \/ InitiateForLand
    \/ VerifyReadForLand
    \/ VerifyAnswer
    \/ RunJob
    \/ Respond

SpecLand == Init /\ [][NextLand]_vars

\* ------------------------------------------ the sweep beside other callers
\* tasks.py 353-360: the queryset is evaluated when the loop starts; the rows
\* it loaded, by payment id
SweepLoad == [p \in {x \in 1..Len(payments) : Stale(payments[x])} |-> payments[p]]

SweepRead(w) ==
    /\ procs[w].pc # "sweeping"
    /\ procs' = [procs EXCEPT ![w] =
                    [NoProc EXCEPT !.pc = "sweeping", !.row = SweepLoad]]
    /\ UNCHANGED <<lands, purchases, payments, attempts, schedules, queue,
                   inflight, sentRefs, now, last, call, codes, issuers, tokens,
                   reply, saved>>

RECURSIVE SweepSaved(_, _)
\* tasks.py 360-363: payment.status = 'expired'; payment.save() for each row
\* loaded, every column as it was loaded
SweepSaved(loaded, n) ==
    IF n = 0 THEN <<>>
    ELSE Append(SweepSaved(loaded, n - 1),
                IF n \in DOMAIN loaded THEN [loaded[n] EXCEPT !.status = "expired"]
                ELSE payments[n])

SweepWrite(w) ==
    /\ procs[w].pc = "sweeping"
    /\ payments' = SweepSaved(procs[w].row, Len(payments))
    /\ procs' = [procs EXCEPT ![w].pc = "swept"]
    /\ UNCHANGED <<lands, purchases, attempts, schedules, queue, inflight,
                   sentRefs, now, last, call, codes, issuers, tokens, reply, saved>>

SweepBegin  == \E w \in Workers : SweepRead(w)
SweepFinish == \E w \in Workers : SweepWrite(w)

\* A full payment whose gateway call raised in initiate_land_payment: the
\* payment was left pending and its attempt initiated.
PendingLeft ==
    /\ lands = [l \in Lands |-> "available"]
    /\ purchases = <<FullPurchase>>
    /\ payments = <<[FullPayment EXCEPT !.status = "pending"]>>
    /\ attempts = <<[PlanAttempt EXCEPT !.status = "initiated"]>>
    /\ schedules = {}
    /\ queue = <<>>
    /\ inflight = {}
    /\ sentRefs = {}
    /\ now = 0
    /\ last = NoCall
    /\ call = NoRequest
    /\ codes = <<>>
    /\ issuers = [w \in Workers |-> NotIssuing]
    /\ tokens = <<>>
    /\ reply = NoReply
    /\ procs = [w \in Workers |-> NoProc]
    /\ saved = NoRows

NextSweepRace ==
    \/ Tick
    \/ SweepBegin
    \/ SweepFinish
    \/ VerifyRead
    \/ VerifyAnswer
    \/ RunJob
    \/ Respond

SpecSweepRace == PendingLeft /\ [][NextSweepRace]_vars

NextRetry ==
    \/ JobTake
    \/ JobFinish

\* a worker that holds a message runs it, and a started job ends
SpecRetry ==
    FullPaymentVerified /\ [][NextRetry]_vars
    /\ WF_vars(JobTake) /\ WF_vars(JobFinish)

\* ===================================================================
\* Properties
\* ===================================================================
Terminal     == {"completed", "failed", "cancelled", "expired"}
InFlightAttempt == {"initiated", "processing"}
Tables       == <<lands, purchases, payments, attempts, schedules, queue>>

\* the call c reported the charge of its payment as successful
ReportsSuccess(c) ==
    /\ c.p # 0
    /\ c.status = "successful"
    /\ c.op = "verify" \/ (c.op = "webhook" /\ c.event = "charge.completed")

\* C1: when verify and the signed charge.completed webhook both report success
\* for a payment, the settlement is applied once: the caller that finds the
\* payment already completed by the other one writes nothing to it and sends
\* no jobs.
C1_SettledOnce ==
    [][\A p \in 1..Len(payments) :
          (/\ ReportsSuccess(last') /\ last'.p = p
           /\ payments[p].status = "completed"
           /\ payments[p].flutterwave_response[2] = "successful"
           /\ payments[p].flutterwave_response[1] # last'.op)
          => (payments'[p] = payments[p] /\ queue' = queue)]_vars

\* C2: a verify call or webhook event for a payment whose status is already
\* completed, failed, cancelled or expired changes neither its status, its
\* paid date nor its recorded gateway response, and sends no jobs.
C2_TerminalNoOp ==
    [][\A p \in 1..Len(payments) :
          (/\ last'.op \in {"verify", "webhook"} /\ last'.p = p
           /\ payments[p].status \in Terminal)
          => (/\ payments'[p].status = payments[p].status
              /\ payments'[p].paid_date = payments[p].paid_date
              /\ payments'[p].flutterwave_response = payments[p].flutterwave_response
              /\ queue' = queue)]_vars

\* C3: a payment that verify or a webhook settled is completed exactly when the
\* provider status recorded with the settlement is 'successful', and failed
\* otherwise.
C3_CompletedOnlyWhenSuccessful ==
    \A p \in 1..Len(payments) :
        payments[p].flutterwave_response # NoBlob =>
            /\ payments[p].flutterwave_response[2] = "successful"
                  => payments[p].status = "completed"
            /\ payments[p].flutterwave_response[2] # "successful"
                  => payments[p].status = "failed"

\* C4: a validly signed charge.completed or charge.failed webhook carrying the
\* tx_ref that initiate_land_payment sent to the gateway finds the payment and
\* settles it.
C4_InitiatedRefLocatesPayment ==
    (/\ last.op = "webhook" /\ last.sig = "valid"
     /\ last.event \in {"charge.completed", "charge.failed"}
     /\ last.ref = "myhouse_attempt")
    => last.p # 0

\* C5: a webhook whose signature is missing or does not match is answered with
\* failure and leaves every payment, attempt and purchase row (and the land,
\* schedule and job queue) as it was.
C5_BadSignatureRejected ==
    [][(last'.op = "webhook" /\ last'.sig # "valid")
          => (last'.ret = "False" /\ UNCHANGED Tables)]_vars

\* C5 happens: a request naming an open payment's reference under a signature
\* that does not match has been answered.
C5_Witness ==
    /\ last.op = "webhook" /\ last.sig = "invalid" /\ last.ref = "land"
    /\ \E p \in 1..Len(payments) : payments[p].status \notin Terminal

\* C6: when the gateway verify call fails, the view answers with a failure
\* status and the payment, its attempts and the purchase are as they were.
C6_GatewayErrorNoMutation ==
    [][(last'.op = "verify" /\ last'.status \in {"error", "raised"})
          => (last'.ret \in {"400", "500"} /\ UNCHANGED Tables)]_vars

\* C6 happens: verify of an open payment was answered after the gateway call
\* failed.
C6_Witness ==
    /\ last.op = "verify" /\ last.status = "error" /\ last.ret = "400"
    /\ payments[last.p].status \in {"processing", "initiated"}

\* C7: a validly signed, well-formed charge webhook whose tx_ref matches no
\* payment is answered with success.
C7_UnknownRefAcknowledged ==
    (/\ last.op = "webhook" /\ last.sig = "valid"
     /\ last.event \in {"charge.completed", "charge.failed"}
     /\ last.p = 0)
    => last.ret = "True"

\* C8: every payment has at most one attempt in status initiated or processing.
C8_OneAttemptInFlight ==
    \A p \in 1..Len(payments) :
        Cardinality({a \in 1..Len(attempts) :
                        /\ attempts[a].payment = p
                        /\ attempts[a].status \in InFlightAttempt}) <= 1

\* C9: no payment in status completed or failed has an attempt that is still
\* initiated or processing.
C9_AttemptFollowsPayment ==
    \A a \in 1..Len(attempts) :
        payments[attempts[a].payment].status \in {"completed", "failed"}
            => attempts[a].status \notin InFlightAttempt

\* draft -> reserved -> down_payment_paid -> in_progress -> completed
PurchaseRank(status) ==
    CASE status = "draft" -> 0
      [] status = "reserved" -> 1
      [] status = "down_payment_paid" -> 2
      [] status = "in_progress" -> 3
      [] status = "completed" -> 4

\* C10: no step moves a purchase's status backward along
\* draft -> reserved -> down_payment_paid -> in_progress -> completed.
C10_PurchaseStatusForward ==
    [][\A u \in 1..Len(purchases) :
          PurchaseRank(purchases'[u].status) >= PurchaseRank(purchases[u].status)]_vars

\* C11: a purchase in status completed has completed payments whose amounts
\* add up to at least its total land price.
C11_CompletedIsPaid ==
    \A u \in 1..Len(purchases) :
        purchases[u].status = "completed"
            => MoneyAtLeast(total_paid(u), purchases[u].total_land_price)

\* C13: with the completed payments held fixed, the rollup run again on its own
\* result leaves the purchase status, the down-payment flag and the land status
\* as the first run left them (so N runs give what one run gives).
C13_RollupIdempotent ==
    \A u \in 1..Len(purchases) :
        LET total == total_paid(u)
            row1  == RollupRow(purchases[u], total)
            land1 == RollupLand(purchases[u], total, lands[purchases[u].land])
            row2  == RollupRow(row1, total)
        IN /\ row2.status = row1.status
           /\ row2.down_payment_paid = row1.down_payment_paid
           /\ RollupLand(row1, total, land1) = land1

\* C13 happens: a purchase stands at down_payment_paid with no down_payment
\* payment of its own, which only a run of the rollup over its completed
\* payments produces.
C13_Witness ==
    \E u \in 1..Len(purchases) :
        /\ purchases[u].status = "down_payment_paid"
        /\ MoneyPositive(total_paid(u))
        /\ \A p \in 1..Len(payments) :
              payments[p].purchase = u => payments[p].payment_type # "down_payment"

\* the signed event the gateway sends when the charge made under tx_ref succeeded
ChargeCompleted(tx_ref) == Body("charge.completed", tx_ref, "successful", "ok")

\* C14: a validly signed charge.completed webhook with status successful for
\* the charge of a full_payment payment whose amount is the total land price
\* leaves the payment completed, and the purchase completed with the land sold
\* or the rollup job that will do so in the queue.
C14_FullPaymentWebhookCompletes ==
    [][\A a \in 1..Len(attempts) :
          LET p == attempts[a].payment
              u == payments[p].purchase
              body == ChargeCompleted(attempts[a].flutterwave_tx_ref)
          IN (/\ attempts[a].flutterwave_tx_ref \in sentRefs
              /\ payments[p].payment_type = "full_payment"
              /\ payments[p].amount = purchases[u].total_land_price
              /\ handle_webhook(body, Hmac(WebhookHash, body)))
             => /\ payments'[p].status = "completed"
                /\ \/ /\ purchases'[u].status = "completed"
                      /\ lands'[purchases[u].land] = "sold"
                   \/ \E i \in 1..Len(queue') : queue'[i] = <<"rollup", u, 0>>]_vars

\* C19: the step that settles a payment as completed puts its four jobs
\* (receipt, confirmation, purchase rollup, sales notification) in the queue.
C19_CompletedEnqueuesJobs ==
    [][\A p \in 1..Len(payments) :
          (/\ ReportsSuccess(last') /\ last'.p = p
           /\ payments[p].status # "completed" /\ payments'[p].status = "completed")
          => queue' = trigger_land_post_payment_actions(queue, p)]_vars

\* two payments of one purchase for the same installment number
SameInstallment(p, q) ==
    /\ p # q
    /\ payments[p].purchase = payments[q].purchase
    /\ payments[p].installment_number # NULL
    /\ payments[p].installment_number = payments[q].installment_number

\* C12: for every purchase and installment number, at most one payment is
\* completed.
C12_OneCompletedPerInstallment ==
    \A p, q \in 1..Len(payments) :
        SameInstallment(p, q)
            => ~(payments[p].status = "completed" /\ payments[q].status = "completed")

RECURSIVE SumAmounts(_)
\* the amounts of a set of schedule rows added up
SumAmounts(S) ==
    IF S = {} THEN Zero
    ELSE LET r == CHOOSE x \in S : TRUE
         IN MoneyPlus(r.amount, SumAmounts(S \ {r}))

\* the schedule rows of purchase u in the table sched
RowsOf(sched, u) == {r \in sched : r.purchase = u}

\* C15: the step in which verify or a webhook settles the down payment of a
\* purchase on the plan leaves the purchase down_payment_paid with exactly
\* PlanMonths schedule rows, numbered 1..PlanMonths, of equal amounts that add
\* up to the total price less the down payment; rows that were there are kept
\* and none is added to them.
C15_DownPaymentCreatesSchedule ==
    [][\A p \in 1..Len(payments) :
          LET u    == payments[p].purchase
              rows == RowsOf(schedules', u)
          IN (/\ ReportsSuccess(last') /\ last'.p = p
              /\ payments[p].payment_type = "down_payment"
              /\ purchases[u].installment_plan
              /\ payments'[p].status = "completed")
             => /\ purchases'[u].status = "down_payment_paid"
                /\ purchases'[u].down_payment_paid
                /\ Cardinality(rows) = PlanMonths
                /\ {r.installment_number : r \in rows} = 1..PlanMonths
                /\ \A r1, r2 \in rows : r1.amount = r2.amount
                /\ SumAmounts(rows) = MoneyMinus(purchases[u].total_land_price,
                                                 purchases[u].down_payment_amount)
                /\ RowsOf(schedules, u) # {} => rows = RowsOf(schedules, u)]_vars

RefusedInput(pd) ==
    \/ pd.amount.form = "text"
    \/ pd.amount.form = "number" /\ (pd.amount.value <= 0 \/ pd.amount.value > AmountCeiling)
    \/ Customer(pd).email = <<>>
    \/ ~HasAt(Customer(pd).email)
    \/ Customer(pd).name = <<>>

\* C17: initialize_payment answers a payment_data whose amount is not positive
\* or above the ceiling, or whose customer email or name is missing or
\* malformed, with success False and code validation_error, having made no
\* request to the gateway.
C17_InvalidInputRejected ==
    (/\ call.op = "initialize_payment" /\ call.phase = "returned"
     /\ RefusedInput(call.pd))
    => (~call.success /\ call.code = "validation_error" /\ call.sends = 0)

Transient == {"timeout", "connection_error"}

\* the requests that ended in a timeout or a connection error
Failures(c) == {i \in 1..Len(c.outcomes) : c.outcomes[i] \in Transient}

\* what holds of a gateway call at every moment: at most MaxRetries requests
\* are made; a further request is made only after a timeout or a connection
\* error, and after the k-th of them the loop has waited k * RetryDelay, except
\* after the last; a response, an SSL error or any other error ends the call at
\* once, a response being the one returned; a call whose requests all failed
\* transiently ends as a result with code service_unavailable; no call ends in
\* an exception.
BoundedRetry(c) ==
    /\ c.sends <= MaxRetries /\ c.sends = Len(c.outcomes)
    /\ \A i \in 1..Len(c.outcomes) - 1 : c.outcomes[i] \in Transient
    /\ \A k \in 1..Len(c.slept) : c.slept[k] = k * RetryDelay
    /\ Len(c.slept) = IF Cardinality(Failures(c)) < MaxRetries
                      THEN Cardinality(Failures(c)) ELSE MaxRetries - 1
    /\ \A i \in 1..Len(c.outcomes) :
          c.outcomes[i] \notin Transient
              => /\ c.phase = "returned"
                 /\ c.outcomes[i] = "response_success" => c.success /\ c.code = "success"
                 /\ c.outcomes[i] = "response_error" => ~c.success /\ c.code = "error"
                 /\ c.outcomes[i] \notin Responses
                       => ~c.success /\ c.code = "service_unavailable"
    /\ Cardinality(Failures(c)) = MaxRetries
          => c.phase = "returned" /\ ~c.success /\ c.code = "service_unavailable"
    /\ ~c.raised

\* C18: a gateway call makes at most 3 requests, retries timeouts and
\* connection errors with a delay that grows linearly, stops at once on an SSL
\* error, returns the first response, gives a service_unavailable result when
\* all requests failed transiently, and always comes to an end.
C18_BoundedRetryTerminates ==
    /\ [] BoundedRetry(call)
    /\ (call.phase = "requesting") ~> (call.phase = "returned")

\* C18 happens: a call has ended as service_unavailable after three requests
\* that timed out or lost the connection, having waited 1 and then 2 seconds.
C18_Witness ==
    /\ call.phase = "returned" /\ call.code = "service_unavailable"
    /\ call.sends = MaxRetries
    /\ Failures(call) = 1..MaxRetries
    /\ call.slept = <<RetryDelay, 2 * RetryDelay>>

\* C20: whenever no generate_otp call for a user is under way, the user has at
\* most one code that is unused and not expired, also when calls for the same
\* user ran at the same time.
C20_OneLiveCode ==
    \A u \in OtpUsers :
        (\A w \in Workers : issuers[w].pc = "idle" \/ issuers[w].user # u)
            => Cardinality(Live(u)) <= 1

\* the rows of the user's codes that carry the submitted otp
Submitted(r) ==
    {i \in 1..Len(codes) : codes[i].user = r.user /\ codes[i].otp = r.otp}

\* C21: a verify_2fa request that submits the right otp of a code that was
\* never used but is past its expiry is answered 400 with the message Expired,
\* and no JWT pair is issued for it.
C21_ExpiredCodeRefused ==
    (/\ reply.op = "verify_2fa"
     /\ reply.at = now
     /\ \E i \in Submitted(reply) : ~codes[i].is_used /\ is_expired(codes[i]))
        => (reply.status = "400" /\ reply.error = "Expired" /\ ~reply.issued)

\* C22: a verify_2fa request whose otp differs from the user's live code is a
\* failed compare, and the attempts counter of that code is one higher after it.
C22_FailedCompareCounted ==
    [][\A u \in OtpUsers : \A i \in Live(u) :
          (/\ reply' # reply
           /\ reply'.op = "verify_2fa" /\ reply'.user = u
           /\ reply'.otp \in OtpValues /\ reply'.otp # codes[i].otp)
              => codes' = [codes EXCEPT ![i] = increment_attempts(codes[i])]]_vars

\* C23: a JWT pair is issued only by a verify_2fa request that submitted the
\* otp of a code of the user which was unused before the request and is marked
\* used by it.
C23_TokenOnlyByVerifiedOtp ==
    [][tokens' # tokens
          => (/\ reply'.op = "verify_2fa" /\ reply'.issued
              /\ \E i \in Submitted(reply') :
                    /\ ~codes[i].is_used
                    /\ codes' = [codes EXCEPT ![i] = mark_used(codes[i])])]_vars

\* the rows of payment p, in the order they were created
AttemptsOf(p) == {a \in 1..Len(attempts) : attempts[a].payment = p}

\* C24: the attempts of a payment, taken in the order they were created, carry
\* the numbers 1, 2, 3, ...: the first has number 1, a later one has a higher
\* number than an earlier one, and no two have the same number, whatever
\* happened to the earlier attempts and however the creating calls interleave.
C24_AttemptNumbersIncrease ==
    \A p \in 1..Len(payments) : \A a \in AttemptsOf(p) :
        /\ attempts[a].attempt_number >= 1
        /\ (\A x \in AttemptsOf(p) : x >= a) => attempts[a].attempt_number = 1
        /\ \A x \in AttemptsOf(p) :
              x < a => attempts[x].attempt_number < attempts[a].attempt_number

\* C24 happens: two calls for one payment read the same count; one created its
\* attempt after an earlier attempt of the payment had failed, and the other
\* call's insert was rejected.
C24_Witness ==
    \E v, w \in Workers : \E a \in AttemptsOf(procs[v].p) :
        /\ v # w
        /\ procs[v].pc = "created" /\ procs[w].pc = "raised"
        /\ procs[v].p = procs[w].p /\ procs[v].n = procs[w].n
        /\ attempts[a].status = "failed"
        /\ attempts[a].attempt_number < procs[v].n

\* how far along pending -> initiated -> processing -> terminal a status is
StatusRank(st) ==
    CASE st = "pending"    -> 0
      [] st = "initiated"  -> 1
      [] st = "processing" -> 2
      [] OTHER             -> 3

\* C25: whenever an operation changes the status of a payment, the new status
\* lies further along pending, initiated, processing, {completed, failed,
\* cancelled, expired} than the old one (so a terminal status is never left),
\* and a payment that becomes completed was initiated or processing before.
C25_PaymentStatusForward ==
    [][\A p \in 1..Len(payments) :
          payments'[p].status # payments[p].status
              => (/\ StatusRank(payments'[p].status) > StatusRank(payments[p].status)
                  /\ payments'[p].status = "completed"
                        => payments[p].status \in {"initiated", "processing"})]_vars

\* C26: every reference the gateway was given at an initiation is the
\* reference of an attempt recorded for the payment being initiated.
C26_AttemptBeforeGateway ==
    \A r \in sentRefs : \E a \in 1..Len(attempts) :
        attempts[a].flutterwave_tx_ref = r

TerminalAttempt == {"completed", "failed", "cancelled"}

AttemptRank(st) ==
    CASE st = "initiated"  -> 0
      [] st = "processing" -> 1
      [] OTHER             -> 2

\* C28: whenever a call changes the status of an attempt, the new status lies
\* further along initiated, processing, {completed, failed, cancelled} than the
\* old one; in particular the status of a completed, failed or cancelled
\* attempt is never changed.
C28_AttemptStatusForward ==
    [][\A a \in 1..Len(attempts) :
          attempts'[a].status # attempts[a].status
              => AttemptRank(attempts'[a].status) > AttemptRank(attempts[a].status)]_vars

\* every row has a reference, and no two rows of a table have the same one
RefsUnique ==
    /\ \A p \in 1..Len(saved.payments) :
          /\ saved.payments[p].flutterwave_tx_ref # NoRef
          /\ \A q \in 1..Len(saved.payments) :
                p # q => saved.payments[p].flutterwave_tx_ref
                            # saved.payments[q].flutterwave_tx_ref
    /\ \A a \in 1..Len(saved.attempts) :
          /\ saved.attempts[a].flutterwave_tx_ref # NoRef
          /\ \A b \in 1..Len(saved.attempts) :
                a # b => saved.attempts[a].flutterwave_tx_ref
                            # saved.attempts[b].flutterwave_tx_ref

\* no step changes the reference of a row that exists
RefsKept ==
    /\ \A p \in 1..Len(saved.payments) :
          saved'.payments[p].flutterwave_tx_ref = saved.payments[p].flutterwave_tx_ref
    /\ \A a \in 1..Len(saved.attempts) :
          saved'.attempts[a].flutterwave_tx_ref = saved.attempts[a].flutterwave_tx_ref

\* C29: a payment and an attempt have their gateway reference from their
\* first save on; no later save changes it, and within each table the
\* references of different rows differ.
C29_ReferencesFixedAndUnique == []RefsUnique /\ [][RefsKept]_vars

\* C29 happens: two payments and two attempts created within one second have
\* been saved again, in a new status, a second later.
C29_Witness ==
    /\ now = MaxRefTime
    /\ Len(saved.payments) = MaxSavedRows /\ Len(saved.attempts) = MaxSavedRows
    /\ \A p \in 1..Len(saved.payments) :
          /\ saved.payments[p].status = "completed"
          /\ saved.payments[p].flutterwave_tx_ref[1] = "land"
          /\ saved.payments[p].flutterwave_tx_ref[3] = 0
    /\ \A a \in 1..Len(saved.attempts) :
          /\ saved.attempts[a].status = "completed"
          /\ saved.attempts[a].flutterwave_tx_ref[2] = 0

\* C30: for every buyer and land there is at most one purchase in status
\* draft, however many initiate_land_payment calls were made and however they
\* were interleaved.
C30_OneDraftPerBuyerAndLand ==
    \A b \in Buyers, l \in Lands : Cardinality(DraftPurchases(b, l)) <= 1

\* every message waiting and every job running is within its retry limit
RetriesWithinLimit ==
    /\ \A i \in 1..Len(queue) : queue[i][3] <= max_retries(queue[i][1])
    /\ \A w \in Workers :
          procs[w].pc = "running" => procs[w].n <= max_retries(procs[w].task)

\* no message waits and no job runs
JobsOver == queue = <<>> /\ \A w \in Workers : procs[w].pc # "running"

\* C31: a job runs at most max_retries times after its first run (3, and 2 for
\* the sales-team notification), and the jobs come to an end however often they
\* fail.
C31_RetriesBoundedAndOver == []RetriesWithinLimit /\ <>[]JobsOver

\* a job failed on its last allowed run and was not sent again
C31_Witness ==
    \E w \in Workers :
        /\ procs[w].pc = "gave_up"
        /\ procs[w].n = max_retries(procs[w].task)
        /\ \A i \in 1..Len(queue) :
              <<queue[i][1], queue[i][2]>> # <<procs[w].task, procs[w].p>>

\* C32: a job that saves a payment leaves its status, paid date and amount as
\* they are in the table at that moment.
C32_JobsKeepPaymentStatus ==
    [][\A w \in Workers :
          (procs[w].pc = "running" /\ procs'[w].pc = "succeeded")
          => \A p \in 1..Len(payments) :
                /\ payments'[p].status = payments[p].status
                /\ payments'[p].paid_date = payments[p].paid_date
                /\ payments'[p].amount = payments[p].amount]_vars

\* C33: the step of initiate_land_payment that creates a payment and its first
\* attempt leaves both processing or both failed.
C33_InitiateStatusesMatch ==
    [][(Len(payments') = Len(payments) + 1 /\ Len(attempts') = Len(attempts) + 1)
       => LET pay == payments'[Len(payments')]
              att == attempts'[Len(attempts')]
          IN \/ pay.status = "processing" /\ att.status = "processing"
             \/ pay.status = "failed" /\ att.status = "failed"]_vars

\* C34: a handle_webhook call that returns failure has changed no payment,
\* attempt or purchase row.
C34_RejectedWebhookChangesNothing ==
    [][(last = NoCall /\ last'.op = "webhook" /\ last'.ret = "False")
       => UNCHANGED <<payments, attempts, purchases>>]_vars

\* C35: a step in which verify_land_payment or handle_webhook completes a
\* payment on the provider's confirmation of an amount has that amount at
\* least the payment's own.
C35_CompletedOnlyForFullAmount ==
    [][\A p \in 1..Len(payments) :
        \A amount \in ConfirmedAmounts(payments[p].amount) :
          (/\ payments[p].status # "completed"
           /\ payments'[p].status = "completed"
           /\ \/ \E r \in inflight :
                    /\ r.p = p
                    /\ VerifyFinishConfirmed(r, VerifyResult("successful", amount))
              \/ LET body == ChargeBody("charge.completed",
                                        payments[p].flutterwave_tx_ref,
                                        "successful", amount)
                 IN handle_webhook(body, Hmac(WebhookHash, body)))
          => MoneyAtLeast(amount, payments[p].amount)]_vars

\* C36: no two purchases of one land are both completed.
C36_OneCompletedPurchasePerLand ==
    \A u, v \in 1..Len(purchases) :
        (/\ purchases[u].land = purchases[v].land
         /\ purchases[u].status = "completed"
         /\ purchases[v].status = "completed")
        => u = v

\* C37: when the sweep writes, a payment that is no longer pending keeps its
\* status, and a payment is set to expired by one sweep only.
C37_SweepLeavesMovedPayments ==
    [][\A w \in Workers :
          (procs[w].pc = "sweeping" /\ procs'[w].pc = "swept")
          => \A p \in 1..Len(payments) :
                payments[p].status # "pending"
                => payments'[p].status = payments[p].status]_vars

\* verify_land_payment has just answered 200 for a successful payment of a
\* type it writes the purchase for
VerifySettled ==
    /\ last.op = "verify" /\ last.ret = "200" /\ last.status = "successful"
    /\ payments[last.p].payment_type \in {"full_payment", "down_payment", "reservation_fee"}

\* C38: once verify_land_payment has settled a successful payment, the purchase
\* row and the land status that update_land_purchase_status would save are the
\* ones verify wrote.
C38_RollupAgreesWithVerify ==
    VerifySettled
    => LET u == payments[last.p].purchase
           l == purchases[u].land
       IN /\ RollupRow(purchases[u], total_paid(u)).status = purchases[u].status
          /\ RollupLand(purchases[u], total_paid(u), lands[l]) = lands[l]

====
